---------------------------- MODULE Spec2Model ----------------------------
(***************************************************************************)
(* krnx-bench: the adapter lifecycle and fault-injection engine.           *)
(*                                                                         *)
(*   - DockerManager (bench/adapters/docker_utils.py): the registry of     *)
(*     tracked containers and stored ServiceConfigs, over a Docker daemon  *)
(*     whose calls may fail.                       specification SpecOrch  *)
(*   - the adapters (bench/adapters/{base,baseline,krnx,naive_rag}.py):    *)
(*     the setup flag and the capability-gated operations.                 *)
(*                                                  specification SpecAdp  *)
(*   - the scenario engine (bench/scenarios/base.py and the crash-recovery *)
(*     and point-in-time variants): the trial loop.  specification SpecRun *)
(*   - the runners (bench/runners/suite.py): the loop over scenarios and   *)
(*     adapters around setup, run and teardown.    specification SpecSuite *)
(*   - one call of either entry point, a runner or scenario.run itself.    *)
(*                                                 specification SpecEntry *)
(*   - the health wait of a start (docker_utils.py:244-308).               *)
(*                                                specification SpecHealth *)
(*   - the grading of a response (consistency/fact_correction.py).         *)
(*                                                 specification SpecGrade *)
(*                                                                         *)
(* The parts share the module's variables; each specification moves its    *)
(* own part and the parts below it, and leaves the others as they start.   *)
(***************************************************************************)
EXTENDS Integers, Sequences, FiniteSets, TLC

VARIABLES
    \* ---- DockerManager (docker_utils.py:40-45)
    containers,       \* self.containers: name -> container handle (an id)
    service_configs,  \* self.service_configs: name -> ServiceConfig
    network,          \* self._network is not None
    \* ---- the Docker daemon
    docker,           \* sequence of container records; a handle is an index
    \* ---- history of the calls made on the orchestrator
    lastOp,           \* the last call: operation, name, how it ended
    startedWith,      \* name -> the ServiceConfig the last storing start was called with
    \* ---- one adapter instance
    kind,             \* "krnx" | "naive_rag" | "baseline" | "none"
    setup_complete,   \* BaseAdapter._setup_complete
    client,           \* the adapter's backend client is not None
    event_count,      \* BaselineAdapter._event_count
    stored,           \* events the backend service holds (KRNX workspace, Qdrant collection)
    lastCall,         \* the last adapter operation and how it ended
    \* ---- one scenario run
    run,              \* the record of a run of Scenario.run (see RunInit)
    \* ---- one suite or runner call
    suite,            \* the record of SuiteRunner.run / ScenarioRunner.run (see SuiteInit)
    \* ---- one health wait
    wait,             \* the record of the health wait of one start_service (see WaitInit)
    \* ---- one grading
    grade             \* the record of one call of _grade_response (see GradeInit)

orchVars == <<containers, service_configs, network, docker, lastOp, startedWith>>
adpVars == <<kind, setup_complete, client, event_count, stored, lastCall>>
vars == <<containers, service_configs, network, docker, lastOp, startedWith,
              kind, setup_complete, client, event_count, stored, lastCall, run, suite, wait, grade>>

\* ------------------------------------------------------------------ bounds
\* Containers the daemon creates in one behaviour of SpecOrch.
MaxContainers == 2
\* Containers the daemon creates in one behaviour of SpecAdp.
MaxAdapterContainers == 3
\* Events written to the baseline adapter before a clear.
MaxWrites == 2
\* The largest trial count a run is called with.
MaxTrials == 3
\* The largest trial count the runners are configured with.
MaxSuiteTrials == 2

\* ------------------------------------------------------------- dictionaries
Keys(d) == DOMAIN d
EmptyDict == <<>>
\* d[k] = v (Python's item assignment)
Put(d, k, v) == [x \in (DOMAIN d) \cup {k} |-> IF x = k THEN v ELSE d[x]]
\* del d[k]
Del(d, k) == [x \in (DOMAIN d) \ {k} |-> d[x]]

\* ------------------------------------------------------------ ServiceConfig
Names == {"redis", "krnx"}

\* docker_utils.py:18-30.  healthcheck_url / healthcheck_cmd: whether one is
\* declared; two configs of one name differ in what they declare.  As in the
\* configs the adapters build (krnx.py:77-111, naive_rag.py:88-93), at most
\* one health check is declared.
ServiceConfig ==
    {c \in [name : Names, healthcheck_url : BOOLEAN, healthcheck_cmd : BOOLEAN] :
        ~(c.healthcheck_url /\ c.healthcheck_cmd)}

\* ------------------------------------------------------------ Docker daemon
\* created:  created by containers.run, never started (the start failed)
\* starting: running, health not yet observed;  healthy: running and healthy
\* stopped:  ended by a graceful stop;  killed: ended by SIGKILL
\* crashed:  exited by itself;  removed: no longer exists
Statuses == {"created", "starting", "healthy", "stopped", "killed", "crashed", "removed"}

Running(s) == s \in {"starting", "healthy"}

\* The daemon's container of that Docker name, if one exists (at most one does).
Existing(dk, name) == {i \in 1..Len(dk) : dk[i].name = name /\ dk[i].status # "removed"}

SetStatus(dk, i, s) == [dk EXCEPT ![i].status = s]

\* container.remove: the daemon keeps nothing of a removed container; a handle
\* to it is stale.
Gone(name) == [name |-> name, status |-> "removed"]
Remove(dk, i) == [dk EXCEPT ![i] = Gone(dk[i].name)]

\* The manager's fields and the daemon as one value, for the operations below.
Mgr == [containers |-> containers, service_configs |-> service_configs,
        network |-> network, docker |-> docker]


\* ------------------------------------------------- DockerManager operations
\* Each operation takes the manager and the daemon as m, and what the daemon
\* does this time as out, and gives the manager and daemon after the call and
\* how the call ended: "ok", or the exception that left it.

Ret(m, result) == [m |-> m, result |-> result]

\* docker_utils.py:47-63
ensure_network(m) == [m EXCEPT !.network = TRUE]

\* The wait that tries the probe command before the health URL.
HealthMethod_cmd_first(config) ==
    IF config.healthcheck_cmd THEN "cmd"
    ELSE IF config.healthcheck_url THEN "http"
    ELSE "running"

\* docker_utils.py:124-130: the health method, by priority.
HealthMethod(config) ==
    IF config.healthcheck_url THEN "http"
    ELSE IF config.healthcheck_cmd THEN "cmd"
    ELSE "running"

\* What the daemon may do to one start:
\*   ok            the container runs and the health wait succeeds
\*   api_error     containers.run raises before a container exists
\*   port_conflict containers.run creates the container and fails to start it:
\*                 APIError "address already in use"
\*   timeout       the health wait raises TimeoutError (244-308)
\*   exited        the running-state poll sees the container exited: RuntimeError (302-304)
StartOutcomes(config) ==
    {"ok", "api_error", "port_conflict", "timeout"}
        \cup (IF HealthMethod(config) = "running" THEN {"exited"} ELSE {})

AllStartOutcomes == {"ok", "api_error", "port_conflict", "timeout", "exited"}

\* docker_utils.py:87-93: remove the existing container of that Docker name.
RemoveExisting(dk, name) ==
    [i \in 1..Len(dk) |-> IF i \in Existing(dk, name) THEN Gone(name) ELSE dk[i]]

\* The record of the new container kept without its config.
Track_nospec(m, config, c) ==
    [m EXCEPT !.containers = Put(m.containers, config.name, c)]

\* docker_utils.py:120-121: the new container and its config are recorded
\* before the health wait.
Track(m, config, c) ==
    [m EXCEPT !.containers = Put(m.containers, config.name, c),
              !.service_configs = Put(m.service_configs, config.name, config)]

\* start_service recording the container only once it is healthy: a health
\* wait that raises leaves the new container out of the registry.
start_service_late(m, config, out) ==
    LET dk1 == RemoveExisting(m.docker, config.name)
        m1  == ensure_network([m EXCEPT !.docker = dk1])
        c   == Len(dk1) + 1
        new(st) == Append(dk1, [name |-> config.name, config |-> config, status |-> st])
    IN  CASE out = "api_error" -> Ret(m1, "APIError")
          [] out = "port_conflict" ->
                Ret([m1 EXCEPT !.docker = new("created")], "PortInUse")
          [] out = "timeout" ->
                Ret([m1 EXCEPT !.docker = new("starting")], "TimeoutError")
          [] out = "exited" ->
                Ret([m1 EXCEPT !.docker = new("crashed")], "RuntimeError")
          [] OTHER ->
                Ret(Track([m1 EXCEPT !.docker = new("healthy")], config, c), "ok")

\* docker_utils.py:65-133
start_service(m, config, out) ==
    LET dk1 == RemoveExisting(m.docker, config.name)
        m1  == ensure_network([m EXCEPT !.docker = dk1])
        c   == Len(dk1) + 1
        new(st) == Append(dk1, [name |-> config.name, config |-> config, status |-> st])
    IN  CASE out = "api_error" -> Ret(m1, "APIError")
          [] out = "port_conflict" ->
                Ret([m1 EXCEPT !.docker = new("created")], "PortInUse")
          [] out = "timeout" ->
                Ret(Track([m1 EXCEPT !.docker = new("starting")], config, c), "TimeoutError")
          [] out = "exited" ->
                Ret(Track([m1 EXCEPT !.docker = new("crashed")], config, c), "RuntimeError")
          [] OTHER ->
                Ret(Track([m1 EXCEPT !.docker = new("healthy")], config, c), "ok")

\* What the daemon may do to one stop: container.stop succeeds or raises.
StopOutcomes == {"ok", "stop_error"}

\* stop made symmetric with kill: an untracked name raises ValueError.
stop_service_strict(m, name, out) ==
    IF name \notin Keys(m.containers) THEN Ret(m, "ValueError")
    ELSE LET c  == m.containers[name]
             st == m.docker[c].status
             forget(mm) == [mm EXCEPT !.containers = Del(mm.containers, name)]
         IN  IF st # "removed" /\ out # "stop_error"
             THEN Ret(forget([m EXCEPT !.docker =
                        SetStatus(m.docker, c, IF Running(st) THEN "stopped" ELSE st)]), "ok")
             ELSE IF Running(st)
                  THEN Ret(forget([m EXCEPT !.docker = SetStatus(m.docker, c, "killed")]), "ok")
                  ELSE Ret(m, "APIError")

\* stop without the escalation: a container.stop that raises is logged and
\* the record is dropped, the container left as it is.
stop_service_noescalate(m, name, out) ==
    IF name \notin Keys(m.containers) THEN Ret(m, "ok")
    ELSE LET c  == m.containers[name]
             st == m.docker[c].status
             forget(mm) == [mm EXCEPT !.containers = Del(mm.containers, name)]
         IN  IF st # "removed" /\ out # "stop_error"
             THEN Ret(forget([m EXCEPT !.docker =
                        SetStatus(m.docker, c, IF Running(st) THEN "stopped" ELSE st)]), "ok")
             ELSE Ret(forget(m), "ok")

\* docker_utils.py:135-150.  out = "stop_error": container.stop raises.
stop_service(m, name, out) ==
    IF name \notin Keys(m.containers) THEN Ret(m, "ok")
    ELSE LET c  == m.containers[name]
             st == m.docker[c].status
             forget(mm) == [mm EXCEPT !.containers = Del(mm.containers, name)]
         IN  IF st # "removed" /\ out # "stop_error"
             THEN \* container.stop succeeded
                  Ret(forget([m EXCEPT !.docker =
                        SetStatus(m.docker, c, IF Running(st) THEN "stopped" ELSE st)]), "ok")
             ELSE \* container.stop raised: container.kill()
                  IF Running(st)
                  THEN Ret(forget([m EXCEPT !.docker = SetStatus(m.docker, c, "killed")]), "ok")
                  ELSE Ret(m, "APIError")

\* kill as lenient as stop: an untracked name is skipped without an error.
kill_service_lenient(m, name) ==
    IF name \notin Keys(m.containers) THEN Ret(m, "ok")
    ELSE LET c == m.containers[name]
         IN  IF Running(m.docker[c].status)
             THEN Ret([m EXCEPT !.docker = SetStatus(m.docker, c, "killed")], "ok")
             ELSE Ret(m, "APIError")

\* kill made symmetric with stop: the record is dropped after the signal.
kill_service_untrack(m, name) ==
    IF name \notin Keys(m.containers) THEN Ret(m, "ValueError")
    ELSE LET c == m.containers[name]
         IN  IF Running(m.docker[c].status)
             THEN Ret([m EXCEPT !.docker = SetStatus(m.docker, c, "killed"),
                                !.containers = Del(m.containers, name)], "ok")
             ELSE Ret(m, "APIError")

\* docker_utils.py:152-167
kill_service(m, name) ==
    IF name \notin Keys(m.containers) THEN Ret(m, "ValueError")
    ELSE LET c == m.containers[name]
         IN  IF Running(m.docker[c].status)
             THEN Ret([m EXCEPT !.docker = SetStatus(m.docker, c, "killed")], "ok")
             ELSE \* the daemon refuses to signal a container that is not running
                  Ret(m, "APIError")

\* restart with the config rebuilt from the dead container, whose attributes
\* hold no health-check declaration.
restart_service_rederive(m, name, out) ==
    IF name \notin Keys(m.service_configs) THEN Ret(m, "ValueError")
    ELSE LET config == [name |-> name, healthcheck_url |-> FALSE, healthcheck_cmd |-> FALSE]
             m1 == IF name \in Keys(m.containers)
                   THEN [m EXCEPT !.docker = Remove(m.docker, m.containers[name]),
                                  !.containers = Del(m.containers, name)]
                   ELSE m
         IN  start_service(m1, config, out)

\* restart that leaves the dead container's record in the registry until the
\* new start replaces it.
restart_service_keep(m, name, out) ==
    IF name \notin Keys(m.service_configs) THEN Ret(m, "ValueError")
    ELSE LET config == m.service_configs[name]
             m1 == IF name \in Keys(m.containers)
                   THEN [m EXCEPT !.docker = Remove(m.docker, m.containers[name])]
                   ELSE m
         IN  start_service(m1, config, out)

\* docker_utils.py:169-190
restart_service(m, name, out) ==
    IF name \notin Keys(m.service_configs) THEN Ret(m, "ValueError")
    ELSE LET config == m.service_configs[name]
             m1 == IF name \in Keys(m.containers)
                   THEN [m EXCEPT !.docker = Remove(m.docker, m.containers[name]),
                                  !.containers = Del(m.containers, name)]
                   ELSE m
         IN  start_service(m1, config, out)

\* What the daemon may do to one inspection: container.reload() answers, or
\* raises although the container exists (the daemon cannot be reached).
InspectOutcomes == {"ok", "inspect_error"}

\* is_service_alive reading the status the handle holds, without reload().
is_service_alive_cached(m, name, out) ==
    /\ name \in Keys(m.containers)
    /\ \/ out = "inspect_error"
       \/ Running(m.docker[m.containers[name]].status)

\* docker_utils.py:192-204
is_service_alive(m, name, out) ==
    /\ name \in Keys(m.containers)
    /\ out # "inspect_error"
    /\ m.docker[m.containers[name]].status # "removed"     \* reload() succeeds
    /\ Running(m.docker[m.containers[name]].status)

\* docker_utils.py:220-231, one tracked container.  fail.stop, fail.remove,
\* fail.force: the names whose stop / remove() / remove(force=True) raises.
CleanupOne(dk, c, name, fail) ==
    LET st == dk[c].status
        stopOk == st # "removed" /\ name \notin fail.stop
        st1 == IF stopOk /\ Running(st) THEN "stopped" ELSE st
    IN  IF stopOk /\ name \notin fail.remove
        THEN Remove(dk, c)
        ELSE IF st # "removed" /\ name \notin fail.force
             THEN Remove(dk, c)
             ELSE SetStatus(dk, c, st1)

RECURSIVE CleanupEach(_, _, _, _)
CleanupEach(dk, cs, todo, fail) ==
    IF todo = {} THEN dk
    ELSE LET name == CHOOSE n \in todo : TRUE
         IN  CleanupEach(CleanupOne(dk, cs[name], name, fail), cs, todo \ {name}, fail)

\* The sweep stopping at the first container whose stop or remove raises: the
\* exception leaves cleanup_all and nothing after it runs.
cleanup_all_abort(m, fail) ==
    IF (fail.stop \cup fail.remove) \cap Keys(m.containers) # {} \/ (m.network /\ fail.network)
    THEN Ret(m, "APIError")
    ELSE Ret([m EXCEPT !.docker = CleanupEach(m.docker, m.containers, Keys(m.containers), fail),
                       !.containers = EmptyDict,
                       !.network = FALSE], "ok")

\* docker_utils.py:215-242.  fail.network: network.remove raises (236-240); the
\* handle is dropped either way (241).
cleanup_all(m, fail) ==
    Ret([m EXCEPT !.docker = CleanupEach(m.docker, m.containers, Keys(m.containers), fail),
                  !.containers = EmptyDict,
                  !.network = FALSE], "ok")

\* ------------------------------------------------------ the idle components
NoCall == [op |-> "none", name |-> "none", result |-> "none"]

AdapterIdle ==
    /\ kind = "none"
    /\ setup_complete = FALSE
    /\ client = FALSE
    /\ event_count = 0
    /\ stored = 0
    /\ lastCall = NoCall

\* A run that has not been called.
RunIdle == [variant |-> "none", pc |-> "idle"]

\* A suite that has not been called.
SuiteIdle == [mode |-> "none", pc |-> "idle"]

\* No health wait is under way.
WaitIdle == [method |-> "none", pc |-> "idle"]

\* No response is being graded.
GradeIdle == [pc |-> "idle"]

\* DockerManager.__init__ (docker_utils.py:40-45) on a daemon with no
\* benchmark container.
ManagerInit ==
    /\ containers = EmptyDict
    /\ service_configs = EmptyDict
    /\ network = FALSE
    /\ docker = <<>>
    /\ lastOp = NoCall
    /\ startedWith = EmptyDict

\* ------------------------------------------- SpecOrch: calls on one manager
SetMgr(m) ==
    /\ containers' = m.containers
    /\ service_configs' = m.service_configs
    /\ network' = m.network
    /\ docker' = m.docker

\* A start stores its config unless containers.run raised (docker_utils.py:109-121).
Stores(out) == out \notin {"api_error", "port_conflict"}

StartServiceCall(config, out) ==
    /\ Len(docker) < MaxContainers
    /\ LET r == start_service(Mgr, config, out)
       IN  /\ SetMgr(r.m)
           /\ lastOp' = [op |-> "start", name |-> config.name, result |-> r.result]
    /\ startedWith' = IF Stores(out) THEN Put(startedWith, config.name, config)
                      ELSE startedWith
    /\ UNCHANGED <<adpVars, run, suite, wait, grade>>

StopServiceCall(name, out) ==
    /\ LET r == stop_service(Mgr, name, out)
       IN  /\ SetMgr(r.m)
           /\ lastOp' = [op |-> "stop", name |-> name, result |-> r.result]
    /\ UNCHANGED <<startedWith, adpVars, run, suite, wait, grade>>

KillServiceCall(name) ==
    /\ LET r == kill_service(Mgr, name)
       IN  /\ SetMgr(r.m)
           /\ lastOp' = [op |-> "kill", name |-> name, result |-> r.result]
    /\ UNCHANGED <<startedWith, adpVars, run, suite, wait, grade>>

RestartServiceCall(name, out) ==
    /\ Len(docker) < MaxContainers
    /\ out \in (IF name \in Keys(service_configs)
                THEN StartOutcomes(service_configs[name]) ELSE {"ok"})
    /\ LET r == restart_service(Mgr, name, out)
       IN  /\ SetMgr(r.m)
           /\ lastOp' = [op |-> "restart", name |-> name, result |-> r.result]
    /\ UNCHANGED <<startedWith, adpVars, run, suite, wait, grade>>

IsServiceAliveCall(name, out) ==
    /\ lastOp' = [op |-> "is_alive", name |-> name,
                  result |-> IF is_service_alive(Mgr, name, out) THEN "true" ELSE "false"]
    /\ UNCHANGED <<containers, service_configs, network, docker, startedWith, adpVars, run, suite, wait, grade>>

Failing == [stop : SUBSET Names, remove : SUBSET Names, force : SUBSET Names,
            network : BOOLEAN]
NoFailure == [stop |-> {}, remove |-> {}, force |-> {}, network |-> FALSE]

CleanupAllCall(fail) ==
    /\ fail.stop \cup fail.remove \cup fail.force \subseteq Keys(containers)
    /\ fail.network => network
    \* a call that is not made does not fail: remove() follows a stop that
    \* returned, remove(force=True) follows a stop or remove() that raised
    /\ fail.remove \cap fail.stop = {}
    /\ fail.force \subseteq fail.stop \cup fail.remove
    /\ LET r == cleanup_all(Mgr, fail)
       IN  /\ SetMgr(r.m)
           /\ lastOp' = [op |-> "cleanup_all", name |-> "none", result |-> r.result]
    /\ UNCHANGED <<startedWith, adpVars, run, suite, wait, grade>>

OrchInit == ManagerInit /\ AdapterIdle /\ run = RunIdle /\ suite = SuiteIdle /\ wait = WaitIdle /\ grade = GradeIdle

OrchNext ==
    \/ \E config \in ServiceConfig : \E out \in StartOutcomes(config) :
            StartServiceCall(config, out)
    \/ \E name \in Names, out \in StopOutcomes : StopServiceCall(name, out)
    \/ \E name \in Names : KillServiceCall(name)
    \/ \E name \in Names, out \in AllStartOutcomes : RestartServiceCall(name, out)
    \/ \E name \in Names, out \in InspectOutcomes : IsServiceAliveCall(name, out)
    \/ \E fail \in Failing : CleanupAllCall(fail)

SpecOrch == OrchInit /\ [][OrchNext]_vars

\* ============================================================= health wait
\* The health wait of one start_service(config, timeout)
\* (docker_utils.py:123-133, 244-308).  Time is counted in polls: a poll that
\* does not end the wait is followed by a sleep, and the loop is left once
\* timeout polls have passed.  wait holds the call's locals:
\*   config, timeout    the arguments
\*   method             the wait start_service chose, "none" before it chose
\*   pc                 "select" | "poll" | "returned" | "raised"
\*   elapsed            time.time() - start, in polls
\*   response           what the last probe gave
\*   last_error         the last_error local of the HTTP poll
\*   used               the kinds of probe made so far
\*   raised, message    the exception that left the wait and what it reports
MaxTimeout == 3

\* What a probe gives: its kind and, where it has one, a number.
Probe(what, code) == [what |-> what, code |-> code]
NoProbe == Probe("none", -1)

\* The status codes httpx.get may answer with.
HttpCodes == {200, 204, 299, 404, 503}

\* httpx.get: a response with a status code, or an exception
\* (docker_utils.py:252-264)
HttpResults ==
    {Probe("response", code) : code \in HttpCodes}
        \cup {Probe(e, -1) : e \in {"ConnectError", "TimeoutException", "Exception"}}

\* container.exec_run: the exit code, or an exception (docker_utils.py:282-287)
CmdResults == {Probe("exit", 0), Probe("exit", 1), Probe("raise", -1)}

\* container.reload() and container.status; reload may raise
\* (docker_utils.py:299-304)
ContainerStates ==
    {Probe(st, -1) : st \in {"running", "created", "exited", "dead", "reload_error"}}

WaitConfigs == [name : {"krnx"}, healthcheck_url : BOOLEAN, healthcheck_cmd : BOOLEAN]

\* An error text, with the status code it quotes.
Text(text, code) == [text |-> text, code |-> code]

NewWait(config, timeout) ==
    [config |-> config, timeout |-> timeout, method |-> "none", pc |-> "select",
     elapsed |-> 0, response |-> NoProbe, last_error |-> Text("None", -1), used |-> {},
     raised |-> "none", message |-> "none", quoted |-> Text("None", -1)]

WaitInit ==
    /\ ManagerInit /\ AdapterIdle /\ run = RunIdle /\ suite = SuiteIdle
    /\ grade = GradeIdle
    /\ \E config \in WaitConfigs, timeout \in 0..MaxTimeout : wait = NewWait(config, timeout)

WaitFrame == UNCHANGED <<orchVars, adpVars, run, suite, grade>>

\* docker_utils.py:123-130
WaitSelect ==
    /\ wait.pc = "select"
    /\ wait' = [wait EXCEPT !.method = HealthMethod(wait.config), !.pc = "poll"]
    /\ WaitFrame

\* docker_utils.py:254-255: the status that ends the HTTP poll
HttpHealthy(code) == code = 200

\* docker_utils.py:256-264: last_error after a poll that did not end the wait
LastError(resp) ==
    CASE resp.what = "response" -> Text("HTTP", resp.code)
      [] resp.what = "ConnectError" -> Text("Connection refused", -1)
      [] resp.what = "TimeoutException" -> Text("Timeout", -1)
      [] OTHER -> Text("str(e)", -1)

\* docker_utils.py:250-266: one iteration of _wait_for_http_health
HttpPoll(resp) ==
    /\ wait.pc = "poll" /\ wait.method = "http"
    /\ wait.elapsed < wait.timeout
    /\ wait' = IF resp.what = "response" /\ HttpHealthy(resp.code)
               THEN [wait EXCEPT !.response = resp, !.used = @ \cup {"http"},
                                 !.pc = "returned"]
               ELSE [wait EXCEPT !.response = resp, !.used = @ \cup {"http"},
                                 !.last_error = LastError(resp),
                                 !.elapsed = @ + 1]
    /\ WaitFrame

\* docker_utils.py:280-289: one iteration of _wait_for_cmd_health; an
\* exception of exec_run is dropped
CmdPoll(res) ==
    /\ wait.pc = "poll" /\ wait.method = "cmd"
    /\ wait.elapsed < wait.timeout
    /\ wait' = IF res = Probe("exit", 0)
               THEN [wait EXCEPT !.response = res, !.used = @ \cup {"cmd"},
                                 !.pc = "returned"]
               ELSE [wait EXCEPT !.response = res, !.used = @ \cup {"cmd"},
                                 !.elapsed = @ + 1]
    /\ WaitFrame

\* docker_utils.py:298-306: one iteration of _wait_for_running; reload() is
\* outside any try
RunningPoll(st) ==
    /\ wait.pc = "poll" /\ wait.method = "running"
    /\ wait.elapsed < wait.timeout
    /\ wait' = CASE st.what = "running" ->
                      [wait EXCEPT !.response = st, !.used = @ \cup {"running"},
                                   !.pc = "returned"]
                 [] st.what \in {"exited", "dead"} ->
                      [wait EXCEPT !.response = st, !.used = @ \cup {"running"},
                                   !.pc = "raised", !.raised = "RuntimeError",
                                   !.message = "Container exited unexpectedly"]
                 [] st.what = "reload_error" ->
                      [wait EXCEPT !.response = st, !.used = @ \cup {"running"},
                                   !.pc = "raised", !.raised = "APIError",
                                   !.message = "str(e)"]
                 [] OTHER ->
                      [wait EXCEPT !.response = st, !.used = @ \cup {"running"},
                                   !.elapsed = @ + 1]
    /\ WaitFrame

\* docker_utils.py:268-270, 291, 308: the loop is left with the time used
\* up; only the HTTP wait quotes a last error
WaitTimeout ==
    /\ wait.pc = "poll"
    /\ wait.elapsed >= wait.timeout
    /\ wait' = [wait EXCEPT !.pc = "raised", !.raised = "TimeoutError",
                  !.message = CASE wait.method = "http" -> "Service not healthy"
                                [] wait.method = "cmd" -> "Health check command failed"
                                [] OTHER -> "Container not running",
                  !.quoted = IF wait.method = "http" THEN wait.last_error ELSE @]
    /\ WaitFrame

WaitNext ==
    \/ WaitSelect
    \/ \E resp \in HttpResults : HttpPoll(resp)
    \/ \E res \in CmdResults : CmdPoll(res)
    \/ \E st \in ContainerStates : RunningPoll(st)
    \/ WaitTimeout

SpecHealth == WaitInit /\ [][WaitNext]_vars

\* ================================================================= grading
\* One call of FactCorrectionScenario._grade_response(response, fact_values)
\* (fact_correction.py:199-226).  A string is a sequence of characters over a
\* small alphabet with one letter in both cases.  grade holds the arguments
\* and, once the call returned, the grade and the matched version (0: None).
Chars == {"a", "A", "b"}

MaxResponseLen == 3

\* The strings of at most n characters.
Strings(n) == UNION {[1..k -> Chars] : k \in 0..n}

\* The fact values a trial may hold (fact_correction.py:152-164): values with
\* capitals, as the addresses have, and a value that is part of another, as
\* value_v1 is of value_v10 and $10000 of $100000.
FactValues == {<<"a">>, <<"a", "b">>, <<"A", "b">>, <<"b", "A">>}

\* The version lists v1..vN, of distinct values.
FactLists ==
    {<<v>> : v \in FactValues}
        \cup {<<v, w>> : <<v, w>> \in {x \in FactValues \X FactValues : x[1] # x[2]}}

\* str.lower()
lower(str) == [i \in 1..Len(str) |-> IF str[i] = "A" THEN "a" ELSE str[i]]

\* sub in str
Contains(sub, str) ==
    \E i \in 1..(Len(str) - Len(sub) + 1) : SubSeq(str, i, i + Len(sub) - 1) = sub

GradeResult(g, matched_version) == [grade |-> g, matched_version |-> matched_version]

\* The grading that compares the strings as they are.
grade_response_literal(response, fact_values) ==
    LET latest == fact_values[Len(fact_values)]
        older == {i \in 1..(Len(fact_values) - 1) : Contains(fact_values[i], response)}
    IN  IF Contains(latest, response)
        THEN GradeResult("correct", Len(fact_values))
        ELSE IF older # {}
        THEN GradeResult("stale", CHOOSE i \in older : \A j \in older : i <= j)
        ELSE GradeResult("hallucinated", 0)

\* fact_correction.py:199-226
grade_response(response, fact_values) ==
    LET response_lower == lower(response)
        latest == lower(fact_values[Len(fact_values)])
        older == {i \in 1..(Len(fact_values) - 1) :
                     Contains(lower(fact_values[i]), response_lower)}
    IN  IF Contains(latest, response_lower)
        THEN GradeResult("correct", Len(fact_values))
        ELSE IF older # {}
        THEN GradeResult("stale", CHOOSE i \in older : \A j \in older : i <= j)
        ELSE GradeResult("hallucinated", 0)

GradeInit ==
    /\ ManagerInit /\ AdapterIdle /\ run = RunIdle /\ suite = SuiteIdle /\ wait = WaitIdle
    /\ \E response \in Strings(MaxResponseLen), fact_values \in FactLists :
          grade = [pc |-> "call", response |-> response, fact_values |-> fact_values,
                   result |-> GradeResult("none", 0), success |-> FALSE]

\* fact_correction.py:131-136: the response is graded and the trial succeeds
\* when the grade is "correct"
GradeCall ==
    /\ grade.pc = "call"
    /\ LET r == grade_response(grade.response, grade.fact_values)
       IN  grade' = [grade EXCEPT !.pc = "returned", !.result = r,
                                  !.success = (r.grade = "correct")]
    /\ UNCHANGED <<orchVars, adpVars, run, suite, wait>>

GradeNext == GradeCall

SpecGrade == GradeInit /\ [][GradeNext]_vars

\* ================================================================ adapters
\* One adapter instance as a value: its kind, BaseAdapter._setup_complete
\* (base.py:212), whether its backend client exists (krnx.py:58,
\* naive_rag.py:57), BaselineAdapter._event_count (baseline.py:34) and its
\* DockerManager with the daemon (krnx.py:47, naive_rag.py:56).
Kinds == {"krnx", "naive_rag", "baseline"}
Capabilities == {"replay", "provenance", "fault_injection", "versioning"}

Adp == [kind |-> kind, setup_complete |-> setup_complete, client |-> client,
        event_count |-> event_count, stored |-> stored, m |-> Mgr]

ARet(a, result) == [a |-> a, result |-> result]

\* base.py:222-225: the exception _ensure_setup raises
NotSetUp == "AdapterError: adapter not set up"

\* krnx.py:77-82, 96-111 and naive_rag.py:88-93
redis_config == [name |-> "redis",  healthcheck_url |-> FALSE, healthcheck_cmd |-> TRUE]
krnx_config == [name |-> "krnx",   healthcheck_url |-> TRUE,  healthcheck_cmd |-> FALSE]
qdrant_config == [name |-> "qdrant", healthcheck_url |-> TRUE,  healthcheck_cmd |-> FALSE]

\* The events a service still holds: a container that was removed took its
\* data with it (no ServiceConfig of the adapters declares a volume).
Held(dk, name, n) == IF Existing(dk, name) = {} THEN 0 ELSE n

\* What a backend request may do: succeed, answer 404, answer another error
\* status, or fail to connect.
HttpOuts == {"ok", "404", "500", "connect_error"}

\* krnx.py:86-92, 115-121 and naive_rag.py:97-103: what setup raises when
\* start_service raised
SetupError(result) == IF result = "PortInUse" THEN "AdapterError: port in use" ELSE result

\* ---- BaselineAdapter (baseline.py)
\* baseline.py:36-40
baseline_setup(a) == ARet([a EXCEPT !.setup_complete = TRUE, !.event_count = 0], "ok")
\* teardown checking the flag first, as the data operations do.
baseline_teardown_strict(a) ==
    IF ~a.setup_complete THEN ARet(a, NotSetUp)
    ELSE ARet([a EXCEPT !.setup_complete = FALSE, !.event_count = 0], "ok")
\* baseline.py:42-45
baseline_teardown(a) == ARet([a EXCEPT !.setup_complete = FALSE, !.event_count = 0], "ok")
\* baseline.py:47-49
baseline_clear(a) == ARet([a EXCEPT !.event_count = 0], "ok")
\* baseline.py:51-63
baseline_write_event(a) ==
    IF ~a.setup_complete THEN ARet(a, NotSetUp)
    ELSE ARet([a EXCEPT !.event_count = @ + 1], "ok")
\* baseline.py:65-88.  out = "error": llm.complete raises.
baseline_query(a, out) ==
    IF ~a.setup_complete THEN ARet(a, NotSetUp)
    ELSE ARet(a, IF out = "ok" THEN "ok" ELSE "LLMError")
\* baseline.py:94-107
baseline_get_event(a) == ARet(a, "NotSupported")
baseline_replay_to(a) == ARet(a, "NotSupported")
baseline_get_provenance(a) == ARet(a, "NotSupported")
baseline_kill(a) == ARet(a, "NotSupported")
baseline_restart(a) == ARet(a, "NotSupported")
\* baseline.py:113-115
baseline_supports(capability) == FALSE

\* ---- KRNXDockerAdapter (krnx.py)
\* krnx.py:69-127.  out1, out2: what the daemon does to the two starts.
krnx_setup(a, out1, out2) ==
    LET r1 == start_service(a.m, redis_config, out1)
    IN  IF r1.result # "ok" THEN ARet([a EXCEPT !.m = r1.m], SetupError(r1.result))
        ELSE LET r2 == start_service(r1.m, krnx_config, out2)
             IN  IF r2.result # "ok" THEN ARet([a EXCEPT !.m = r2.m], SetupError(r2.result))
                 ELSE ARet([a EXCEPT !.m = r2.m, !.client = TRUE, !.setup_complete = TRUE,
                                     !.stored = 0], "ok")
\* teardown returning at once when setup never completed.
krnx_teardown_guarded(a, fail) ==
    IF ~a.setup_complete THEN ARet(a, "ok")
    ELSE ARet([a EXCEPT !.client = FALSE, !.m = cleanup_all(a.m, fail).m,
                        !.setup_complete = FALSE], "ok")
\* krnx.py:129-139
krnx_teardown(a, fail) ==
    LET m2 == cleanup_all(a.m, fail).m
    IN  ARet([a EXCEPT !.client = FALSE, !.m = m2, !.setup_complete = FALSE,
                       !.stored = Held(m2.docker, "krnx", a.stored)], "ok")
\* krnx.py:141-159.  out1: the admin clear request; out2: the workspace
\* delete that follows a failed out1.  Both HTTP failures are swallowed.
krnx_clear(a, out1, out2) ==
    IF ~a.setup_complete THEN ARet(a, NotSetUp)
    ELSE IF out1 = "ok" \/ out2 = "ok" THEN ARet([a EXCEPT !.stored = 0], "ok")
    ELSE ARet(a, "ok")
\* krnx.py:161-183
krnx_write_event(a, out) ==
    IF ~a.setup_complete THEN ARet(a, NotSetUp)
    ELSE IF out = "ok" THEN ARet([a EXCEPT !.stored = @ + 1], "ok")
    ELSE ARet(a, "AdapterError")
\* krnx.py:185-199: only HTTPStatusError is caught
krnx_get_event(a, out) ==
    IF ~a.setup_complete THEN ARet(a, NotSetUp)
    ELSE ARet(a, CASE out = "ok" -> "ok"
                   [] out = "404" -> "KeyError"
                   [] out = "500" -> "AdapterError"
                   [] OTHER -> "ConnectError")
\* krnx.py:201-241
krnx_query(a, out) ==
    IF ~a.setup_complete THEN ARet(a, NotSetUp)
    ELSE ARet(a, IF out = "ok" THEN "ok" ELSE "AdapterError")
\* krnx.py:243-269.  The answer of the backend is passed to
\* State(timestamp=..., events=..., event_count=...) (262-266); State has the
\* fields timestamp, events and metadata (models.py:60-66), so the
\* constructor raises TypeError, which the except httpx.HTTPError clause does
\* not catch.
krnx_replay_to(a, out) ==
    IF ~a.setup_complete THEN ARet(a, NotSetUp)
    ELSE ARet(a, IF out = "ok" THEN "TypeError" ELSE "AdapterError")
\* krnx.py:271-298: a 404 gives the minimal chain
krnx_get_provenance(a, out) ==
    IF ~a.setup_complete THEN ARet(a, NotSetUp)
    ELSE ARet(a, CASE out \in {"ok", "404"} -> "ok"
                   [] out = "500" -> "AdapterError"
                   [] OTHER -> "ConnectError")
\* krnx.py:300-304
krnx_kill(a) ==
    LET r == kill_service(a.m, "krnx") IN ARet([a EXCEPT !.m = r.m], r.result)
\* krnx.py:306-315.  durable: whether the service kept its events outside the
\* container that restart_service replaces (the Redis container stays).
krnx_restart(a, out, durable) ==
    LET r == restart_service(a.m, "krnx", out)
        kept == IF r.result = "ValueError" \/ durable THEN a.stored ELSE 0
    IN  IF r.result # "ok" THEN ARet([a EXCEPT !.m = r.m, !.stored = kept], r.result)
        ELSE ARet([a EXCEPT !.m = r.m, !.client = TRUE, !.stored = kept], "ok")
\* krnx.py:317-327.  A missing client raises inside the try and gives False.
krnx_is_alive(a, inspect, http) ==
    /\ is_service_alive(a.m, "krnx", inspect)
    /\ a.client
    /\ http = "ok"
\* krnx.py:329-337
krnx_supports(capability) ==
    capability \in {"replay", "provenance", "fault_injection", "versioning"}

\* ---- NaiveRAGAdapter (naive_rag.py)
\* naive_rag.py:81-112
naive_rag_setup(a, out) ==
    LET r == start_service(a.m, qdrant_config, out)
    IN  IF r.result # "ok" THEN ARet([a EXCEPT !.m = r.m], SetupError(r.result))
        ELSE ARet([a EXCEPT !.m = r.m, !.client = TRUE, !.setup_complete = TRUE,
                            !.stored = 0], "ok")
\* naive_rag.py:114-121
naive_rag_teardown(a, fail) ==
    LET m2 == cleanup_all(a.m, fail).m
    IN  ARet([a EXCEPT !.client = FALSE, !.m = m2, !.setup_complete = FALSE,
                       !.stored = Held(m2.docker, "qdrant", a.stored)], "ok")
\* naive_rag.py:123-148.  out: delete_collection; its failure is swallowed,
\* and so is the failure of create_collection on the collection that is
\* still there.
naive_rag_clear(a, out) ==
    IF ~a.setup_complete THEN ARet(a, NotSetUp)
    ELSE IF out = "ok" THEN ARet([a EXCEPT !.stored = 0], "ok")
    ELSE ARet(a, "ok")
\* naive_rag.py:150-182
naive_rag_write_event(a, out) ==
    IF ~a.setup_complete THEN ARet(a, NotSetUp)
    ELSE IF out = "ok" THEN ARet([a EXCEPT !.stored = @ + 1], "ok")
    ELSE ARet(a, "AdapterError")
\* naive_rag.py:261-288
naive_rag_get_event(a, out) ==
    IF ~a.setup_complete THEN ARet(a, NotSetUp)
    ELSE ARet(a, CASE out = "ok" -> "ok" [] out = "404" -> "KeyError" [] OTHER -> "AdapterError")
\* naive_rag.py:184-222
naive_rag_query(a, out) ==
    IF ~a.setup_complete THEN ARet(a, NotSetUp)
    ELSE ARet(a, IF out = "ok" THEN "ok" ELSE "AdapterError")
\* naive_rag.py:290-291 returning an empty State instead of raising.
naive_rag_replay_to_empty(a) == ARet(a, "ok")

\* naive_rag.py:290-294
naive_rag_replay_to(a) == ARet(a, "NotSupported")
naive_rag_get_provenance(a) == ARet(a, "NotSupported")
\* naive_rag.py:297-300
naive_rag_kill(a) ==
    LET r == kill_service(a.m, "qdrant") IN ARet([a EXCEPT !.m = r.m], r.result)
\* naive_rag.py:302-309: the new Qdrant container holds nothing
naive_rag_restart(a, out) ==
    LET r == restart_service(a.m, "qdrant", out)
        kept == IF r.result = "ValueError" THEN a.stored ELSE 0
    IN  IF r.result # "ok" THEN ARet([a EXCEPT !.m = r.m, !.stored = kept], r.result)
        ELSE ARet([a EXCEPT !.m = r.m, !.client = TRUE, !.stored = kept], "ok")
\* supports also advertising replay, which replay_to does not provide.
naive_rag_supports_replay(capability) == capability \in {"fault_injection", "replay"}
\* naive_rag.py:323-327
naive_rag_supports(capability) == capability = "fault_injection"

\* ---- dispatch on the adapter's class (adapters/__init__.py:10-14)
supports(k, capability) ==
    CASE k = "krnx" -> krnx_supports(capability)
      [] k = "naive_rag" -> naive_rag_supports(capability)
      [] OTHER -> baseline_supports(capability)
clear(a, out1, out2) ==
    CASE a.kind = "krnx" -> krnx_clear(a, out1, out2)
      [] a.kind = "naive_rag" -> naive_rag_clear(a, out1)
      [] OTHER -> baseline_clear(a)
write_event(a, out) ==
    CASE a.kind = "krnx" -> krnx_write_event(a, out)
      [] a.kind = "naive_rag" -> naive_rag_write_event(a, out)
      [] OTHER -> baseline_write_event(a)
query(a, out) ==
    CASE a.kind = "krnx" -> krnx_query(a, out)
      [] a.kind = "naive_rag" -> naive_rag_query(a, out)
      [] OTHER -> baseline_query(a, out)
get_event(a, out) ==
    CASE a.kind = "krnx" -> krnx_get_event(a, out)
      [] a.kind = "naive_rag" -> naive_rag_get_event(a, out)
      [] OTHER -> baseline_get_event(a)
replay_to(a, out) ==
    CASE a.kind = "krnx" -> krnx_replay_to(a, out)
      [] a.kind = "naive_rag" -> naive_rag_replay_to(a)
      [] OTHER -> baseline_replay_to(a)
get_provenance(a, out) ==
    CASE a.kind = "krnx" -> krnx_get_provenance(a, out)
      [] a.kind = "naive_rag" -> naive_rag_get_provenance(a)
      [] OTHER -> baseline_get_provenance(a)
kill(a) ==
    CASE a.kind = "krnx" -> krnx_kill(a)
      [] a.kind = "naive_rag" -> naive_rag_kill(a)
      [] OTHER -> baseline_kill(a)
restart(a, out, durable) ==
    CASE a.kind = "krnx" -> krnx_restart(a, out, durable)
      [] a.kind = "naive_rag" -> naive_rag_restart(a, out)
      [] OTHER -> baseline_restart(a)

\* determinism.py:125-128: the hash of a state, which reads e.content of
\* every event of the state; the events of a replayed state are the dicts of
\* the backend's answer (krnx.py:264), which have no such attribute.  n: how
\* many events the state holds.
hash_state(n) == [raised |-> n > 0, digest |-> n]

\* determinism.py:52-123: one trial of the determinism scenario with
\* history_size h, as how it ends: a result that passed or failed, a result
\* with an error type, or the exception that leaves _run_trial.  wout, out1,
\* out2: what the backend does to the write and to the two replay requests.
determinism_trial(a, h, wout, out1, out2) ==
    IF ~supports(a.kind, "replay") THEN ARet(a, "not_supported")
    ELSE LET w  == IF h > 0 THEN write_event(a, wout) ELSE ARet(a, "ok")
             r1 == replay_to(w.a, out1)
             r2 == replay_to(r1.a, out2)
             h1 == hash_state(r1.a.stored)
             h2 == hash_state(r2.a.stored)
         IN  IF w.result # "ok" THEN ARet(w.a, w.result)
             ELSE IF r1.result # "ok" \/ h1.raised THEN ARet(r1.a, "replay_failed")
             ELSE IF r2.result # "ok" \/ h2.raised THEN ARet(r2.a, "replay_failed")
             ELSE ARet(r2.a, IF h1 = h2 THEN "pass" ELSE "fail")

\* ------------------------------------- SpecAdp: calls on one adapter instance
SetAdp(a) ==
    /\ kind' = a.kind
    /\ setup_complete' = a.setup_complete
    /\ client' = a.client
    /\ event_count' = a.event_count
    /\ stored' = a.stored
    /\ SetMgr(a.m)

Call(op, r) ==
    /\ SetAdp(r.a)
    /\ lastCall' = [op |-> op, name |-> "none", result |-> r.result]
    /\ UNCHANGED <<lastOp, startedWith, run, suite, wait, grade>>

\* The names whose stop / remove calls may raise during a teardown.
FailingTracked ==
    [stop : SUBSET Keys(containers), remove : SUBSET Keys(containers),
     force : SUBSET Keys(containers), network : {FALSE} \cup {network}]

SetupCall(out1, out2) ==
    CASE kind = "krnx" ->
            /\ Len(docker) + 2 <= MaxAdapterContainers
            /\ out1 \in StartOutcomes(redis_config) /\ out2 \in StartOutcomes(krnx_config)
            /\ out1 # "ok" => out2 = "ok"
            /\ Call("setup", krnx_setup(Adp, out1, out2))
      [] kind = "naive_rag" ->
            /\ Len(docker) + 1 <= MaxAdapterContainers
            /\ out1 \in StartOutcomes(qdrant_config) /\ out2 = "ok"
            /\ Call("setup", naive_rag_setup(Adp, out1))
      [] OTHER ->
            /\ out1 = "ok" /\ out2 = "ok"
            /\ Call("setup", baseline_setup(Adp))

TeardownCall(fail) ==
    CASE kind = "krnx" -> Call("teardown", krnx_teardown(Adp, fail))
      [] kind = "naive_rag" -> Call("teardown", naive_rag_teardown(Adp, fail))
      [] OTHER -> fail = NoFailure /\ Call("teardown", baseline_teardown(Adp))

\* What the backend may do to one request of a clear.
ClearOuts == {"ok", "error"}

\* The outcomes of the requests a clear of this adapter makes: the second
\* request of krnx is made only after the first failed.
ClearRequests(k) ==
    CASE k = "krnx" -> {<<"ok", "ok">>, <<"error", "ok">>, <<"error", "error">>}
      [] k = "naive_rag" -> {<<"ok", "ok">>, <<"error", "ok">>}
      [] OTHER -> {<<"ok", "ok">>}

ClearCall(out1, out2) ==
    /\ <<out1, out2>> \in ClearRequests(kind)
    /\ Call("clear", clear(Adp, out1, out2))

WriteEventCall(out) ==
    /\ event_count < MaxWrites /\ stored < MaxWrites
    /\ Call("write_event", write_event(Adp, out))

QueryCall(out) == Call("query", query(Adp, out))

\* The backend answers a get_event with an event only when it holds one.
GetEventCall(out) ==
    /\ (out = "ok" /\ kind # "baseline") => stored > 0
    /\ Call("get_event", get_event(Adp, out))

ReplayToCall(out) == Call("replay_to", replay_to(Adp, out))

GetProvenanceCall(out) == Call("get_provenance", get_provenance(Adp, out))

KillCall == Call("kill", kill(Adp))

RestartCall(out, durable) ==
    /\ Len(docker) < MaxAdapterContainers
    /\ durable \/ (kind = "krnx" /\ stored > 0)
    /\ Call("restart", restart(Adp, out, durable))

\* DeterminismScenario._run_trial on the adapter; the call's name records
\* whether the backend answered every request of the trial.
DeterminismTrialCall(h, wout, out1, out2) ==
    /\ stored + h <= MaxWrites
    /\ h = 0 => wout = "ok"
    /\ LET r == determinism_trial(Adp, h, wout, out1, out2)
       IN  /\ SetAdp(r.a)
           /\ lastCall' = [op |-> "determinism_trial",
                           name |-> IF {wout, out1, out2} = {"ok"}
                                    THEN "answered" ELSE "failed",
                           result |-> r.result]
    /\ UNCHANGED <<lastOp, startedWith, run, suite, wait, grade>>

SupportsCall(capability) ==
    /\ lastCall' = [op |-> "supports", name |-> capability,
                    result |-> IF supports(kind, capability) THEN "true" ELSE "false"]
    /\ UNCHANGED <<orchVars, kind, setup_complete, client, event_count, stored, run, suite, wait, grade>>

\* BaseAdapter.__init__ (base.py:210-212) of an adapter of any class.
AdpInit ==
    /\ ManagerInit
    /\ kind \in Kinds
    /\ setup_complete = FALSE
    /\ client = FALSE
    /\ event_count = 0
    /\ stored = 0
    /\ lastCall = NoCall
    /\ run = RunIdle
    /\ suite = SuiteIdle /\ wait = WaitIdle /\ grade = GradeIdle

AdpNext ==
    \/ \E out1, out2 \in AllStartOutcomes : SetupCall(out1, out2)
    \/ \E fail \in FailingTracked : TeardownCall(fail)
    \/ \E out1, out2 \in ClearOuts : ClearCall(out1, out2)
    \/ \E out \in {"ok", "error"} : WriteEventCall(out)
    \/ \E out \in {"ok", "error"} : QueryCall(out)
    \/ \E out \in HttpOuts : GetEventCall(out)
    \/ \E out \in {"ok", "error"} : ReplayToCall(out)
    \/ \E h \in 0..1, wout, out1, out2 \in {"ok", "error"} :
            DeterminismTrialCall(h, wout, out1, out2)
    \/ \E out \in HttpOuts : GetProvenanceCall(out)
    \/ KillCall
    \/ \E out \in {"ok", "api_error", "port_conflict", "timeout"}, durable \in BOOLEAN :
            RestartCall(out, durable)
    \/ \E capability \in Capabilities : SupportsCall(capability)

SpecAdp == AdpInit /\ [][AdpNext]_vars

\* ========================================================= scenario engine
\* One call of Scenario.run(adapter, llm, trials, progress_callback).  The
\* adapter is the instance of the adapter variables; what it answers to a
\* write, kill, restart or read inside a trial body is the environment's
\* choice.  run holds the call's locals:
\*   variant, trials, tiers, callback   the scenario class, the trials argument,
\*                                      event_counts / history_sizes, whether a
\*                                      progress_callback was passed
\*   pc                                 where the call is
\*   trial_id, ti, k                    the loop variables
\*   results, callbacks                 the results list; callback invocations
\*   written, verified, recovered, corrupted, lost   the locals of a
\*                                      crash-recovery trial
\*   raised                             the exception the last step met, or "none"
\*   read                               what the last get_event of the verification gave
\*   aggregate                          the aggregate of the ScenarioResult returned
Variants == {"default", "crash_recovery", "point_in_time"}

\* event_counts / history_sizes as configured (crash_recovery.py:52,
\* point_in_time.py:50), with small counts.
TierConfigs == {<<2>>, <<0, 1>>}

Max(a, b) == IF a >= b THEN a ELSE b

\* models.py:88-97, with the metrics the engine writes; -1: the key is absent.
TrialResult(id, success, error_type) ==
    [trial_id |-> id, success |-> success, error_type |-> error_type,
     event_count |-> -1, events_written |-> -1,
     recovered |-> -1, corrupted |-> -1, lost |-> -1]

\* base.py:105-121 with the two except clauses merged into the first: every
\* exception of the body is recorded as "not_supported".
BaseTrialResult_merged(trial_id, out) ==
    CASE out \in {"NotSupported", "Exception"} -> TrialResult(trial_id, FALSE, "not_supported")
      [] out = "pass" -> TrialResult(trial_id, TRUE, "none")
      [] OTHER -> TrialResult(trial_id, FALSE, "none")

\* base.py:105-121 without the except NotSupported clause: NotSupported falls
\* into the generic handler.
BaseTrialResult_generic(trial_id, out) ==
    CASE out \in {"NotSupported", "Exception"} -> TrialResult(trial_id, FALSE, "exception")
      [] out = "pass" -> TrialResult(trial_id, TRUE, "none")
      [] OTHER -> TrialResult(trial_id, FALSE, "none")

\* base.py:105-121: the TrialResult of one default trial.  out: what
\* _run_trial did: returned a passing or failing result, or raised.
BaseTrialResult(trial_id, out) ==
    CASE out = "NotSupported" -> TrialResult(trial_id, FALSE, "not_supported")
      [] out = "Exception" -> TrialResult(trial_id, FALSE, "exception")
      [] out = "pass" -> TrialResult(trial_id, TRUE, "none")
      [] OTHER -> TrialResult(trial_id, FALSE, "none")

\* crash_recovery.py:94 and point_in_time.py:85
TrialsPerTier(trials, tiers) == Max(1, trials \div Len(tiers))

\* crash_recovery.py:75 and point_in_time.py:68: the capability the variant checks
Needs(variant) ==
    CASE variant = "crash_recovery" -> "fault_injection"
      [] variant = "point_in_time" -> "replay"
      [] OTHER -> "none"

\* crash_recovery.py:77-90 and point_in_time.py:69-82
NotSupportedResult == TrialResult(0, FALSE, "not_supported")

\* crash_recovery.py:150-160, 176-186, 195-205
FailureResult(trial_id, count, written, error_type) ==
    [TrialResult(trial_id, FALSE, error_type) EXCEPT
        !.event_count = count, !.events_written = written]

\* What adapter.get_event and the comparison may give for one event
\* (crash_recovery.py:216-242): content and checksum match; content matches
\* and the metadata holds no checksum; the checksum differs; the content
\* differs; KeyError; NotSupported; any other exception.
GetOutcomes == {"match", "no_checksum", "bad_checksum", "bad_content",
                "KeyError", "NotSupported", "Exception"}

\* crash_recovery.py:216-242 with the except NotSupported branch skipping the
\* event instead of counting it.
Classify_skip(out) ==
    CASE out \in {"match", "no_checksum"} -> "recovered"
      [] out \in {"bad_checksum", "bad_content"} -> "corrupted"
      [] out = "KeyError" -> "lost"
      [] out = "NotSupported" -> "skipped"
      [] OTHER -> "lost"

\* crash_recovery.py:216-242 without the except NotSupported branch: the
\* exception falls to the generic handler and the event counts as lost.
Classify_generic(out) ==
    CASE out \in {"match", "no_checksum"} -> "recovered"
      [] out \in {"bad_checksum", "bad_content"} -> "corrupted"
      [] OTHER -> "lost"

\* crash_recovery.py:216-242
Classify(out) ==
    CASE out \in {"match", "no_checksum"} -> "recovered"
      [] out \in {"bad_checksum", "bad_content"} -> "corrupted"
      [] out = "KeyError" -> "lost"
      [] out = "NotSupported" -> "recovered"
      [] OTHER -> "lost"

\* crash_recovery.py:247
Success(recovered, corrupted, count) == recovered = count /\ corrupted = 0

\* crash_recovery.py:249-263
VerifiedResult(trial_id, count, recovered, corrupted, lost) ==
    [TrialResult(trial_id, Success(recovered, corrupted, count), "none") EXCEPT
        !.event_count = count, !.events_written = count,
        !.recovered = recovered, !.corrupted = corrupted, !.lost = lost]

Tiered == run.variant \in {"crash_recovery", "point_in_time"}

\* ---- the aggregates
\* Python's a / b on two ints as the fraction it denotes; b = 0 raises
\* ZeroDivisionError.
TrueDiv(a, b) == [num |-> a, den |-> b]

\* sum(1 for r in results if r.success)
RECURSIVE CountSuccess(_)
CountSuccess(results) ==
    IF results = <<>> THEN 0
    ELSE (IF Head(results).success THEN 1 ELSE 0) + CountSuccess(Tail(results))

\* sum(r.metrics[key] for r in results), the keys being present
RECURSIVE SumMetric(_, _)
SumMetric(results, key) ==
    IF results = <<>> THEN 0 ELSE Head(results)[key] + SumMetric(Tail(results), key)

\* What _compute_aggregate gives: the dict it returns, or the exception it raises.
AggRet(value, raised) == [value |-> value, raised |-> raised]

\* The default aggregate counting as a success every trial that recorded no
\* error type.
base_compute_aggregate_errors(results) ==
    IF results = <<>> THEN AggRet(EmptyDict, "none")
    ELSE AggRet([success_rate |->
                    TrueDiv(Len(SelectSeq(results, LAMBDA r : r.error_type = "none")),
                            Len(results)),
                 total_trials |-> Len(results)], "none")

\* base.py:164-188.  mean_timing_ms and error_count are sums over timings and
\* messages, which the TrialResult of the model does not carry.
base_compute_aggregate(results) ==
    IF results = <<>> THEN AggRet(EmptyDict, "none")
    ELSE AggRet([success_rate |-> TrueDiv(CountSuccess(results), Len(results)),
                 total_trials |-> Len(results)], "none")

\* crash_recovery.py:276-331.  A result is valid when its metrics hold
\* events_written (282); the sums read events_recovered and events_corrupted
\* of every valid result (303-304, 319-320), a KeyError when one is absent.
crash_compute_aggregate(results) ==
    LET valid == SelectSeq(results, LAMBDA r : r.events_written # -1)
        written == SumMetric(valid, "events_written")
    IN  IF results = <<>> THEN AggRet(EmptyDict, "none")
        ELSE IF valid = <<>>
        THEN AggRet([error |-> "no_valid_trials", total_trials |-> Len(results)], "none")
        ELSE IF \E i \in 1..Len(valid) : valid[i].recovered = -1
        THEN AggRet(EmptyDict, "KeyError")
        ELSE AggRet([total_trials |-> Len(results),
                     valid_trials |-> Len(valid),
                     events_written |-> written,
                     events_recovered |-> SumMetric(valid, "recovered"),
                     corruption_count |-> SumMetric(valid, "corrupted"),
                     recovery_rate |-> IF written > 0
                                       THEN TrueDiv(SumMetric(valid, "recovered"), written)
                                       ELSE TrueDiv(0, 1)], "none")

\* point_in_time.py:196-229: every result a trial returns holds history_size
\* (183-190), so every result is valid.
pit_compute_aggregate(results) ==
    IF results = <<>> THEN AggRet(EmptyDict, "none")
    ELSE AggRet([total_trials |-> Len(results), valid_trials |-> Len(results)], "none")

compute_aggregate(variant, results) ==
    CASE variant = "crash_recovery" -> crash_compute_aggregate(results)
      [] variant = "point_in_time" -> pit_compute_aggregate(results)
      [] OTHER -> base_compute_aggregate(results)

\* The event count of the tier the loop is in.
N == run.tiers[run.ti]

\* The loop heads (base.py:100, crash_recovery.py:92-96, point_in_time.py:84-87):
\* where the call goes when an iteration is over.
AfterTrial(r) ==
    IF r.variant = "default"
    THEN [r EXCEPT !.trial_id = @ + 1,
                   !.pc = IF r.trial_id + 1 < r.trials THEN "clear" ELSE "finish"]
    ELSE IF r.k + 1 < TrialsPerTier(r.trials, r.tiers)
         THEN [r EXCEPT !.trial_id = @ + 1, !.k = @ + 1, !.pc = "clear"]
         ELSE [r EXCEPT !.trial_id = @ + 1, !.k = 0, !.ti = @ + 1,
                        !.pc = IF r.ti + 1 <= Len(r.tiers) THEN "clear" ELSE "finish"]

\* The locals of a call run(adapter, llm, trials, progress_callback) of a
\* scenario of that variant configured with those tiers, at its first line.
NewRun(v, t, cb, tiers) ==
    [variant |-> v, trials |-> t, callback |-> cb,
     tiers |-> IF v = "default" THEN <<>> ELSE tiers,
     pc |-> "start", trial_id |-> 0, ti |-> 1, k |-> 0,
     results |-> <<>>, callbacks |-> 0,
     written |-> 0, verified |-> 0, recovered |-> 0, corrupted |-> 0, lost |-> 0,
     raised |-> "none", read |-> "none", aggregate |-> EmptyDict]

RunInit ==
    /\ ManagerInit
    /\ kind \in Kinds
    /\ setup_complete \in BOOLEAN
    /\ client = (setup_complete /\ kind # "baseline")
    /\ event_count = 0
    /\ stored = 0
    /\ lastCall = NoCall
    /\ suite = SuiteIdle /\ wait = WaitIdle /\ grade = GradeIdle
    /\ \E v \in Variants, t \in 0..MaxTrials, cb \in BOOLEAN, tiers \in TierConfigs :
         run = NewRun(v, t, cb, tiers)

RunFrame ==
    UNCHANGED <<orchVars, kind, setup_complete, client, event_count, stored, lastCall, suite, wait, grade>>

\* crash_recovery.py:74-90, point_in_time.py:68-82: the adapter lacks the capability
RunUnsupported ==
    /\ run.pc = "start" /\ Tiered
    /\ ~supports(kind, Needs(run.variant))
    /\ run' = [run EXCEPT !.results = <<NotSupportedResult>>,
                          !.aggregate = [error |-> "not_supported"], !.pc = "returned"]
    /\ RunFrame

\* base.py:97-100, crash_recovery.py:92, point_in_time.py:84: into the loop
RunEnter ==
    /\ run.pc = "start"
    /\ Tiered => supports(kind, Needs(run.variant))
    /\ run' = [run EXCEPT !.pc =
                 IF (IF Tiered THEN Len(run.tiers) ELSE run.trials) > 0
                 THEN "clear" ELSE "finish"]
    /\ RunFrame

\* base.py:102, crash_recovery.py:97, point_in_time.py:88: adapter.clear(),
\* outside any try
RunClear ==
    /\ run.pc = "clear"
    /\ \E outs \in ClearRequests(kind) :
       LET r == clear(Adp, outs[1], outs[2])
       IN  /\ SetAdp(r.a)
           /\ run' = IF r.result # "ok"
                     THEN [run EXCEPT !.pc = "raised", !.raised = r.result]
                     ELSE [run EXCEPT !.raised = "none",
                              !.written = 0, !.verified = 0,
                              !.recovered = 0, !.corrupted = 0, !.lost = 0,
                              !.pc = IF run.variant = "crash_recovery"
                                     THEN (IF N = 0 THEN "kill" ELSE "write")
                                     ELSE "trial"]
    /\ UNCHANGED <<lastOp, startedWith, lastCall, suite, wait, grade>>

\* base.py:105-123: one default trial
RunTrial(out) ==
    /\ run.pc = "trial" /\ run.variant = "default"
    /\ run' = [run EXCEPT !.results = Append(@, BaseTrialResult(run.trial_id, out)),
                          !.raised = IF out \in {"NotSupported", "Exception"} THEN out ELSE "none",
                          !.pc = "callback"]
    /\ RunFrame

\* point_in_time.py:89-90: one trial; a write_event that raises is not caught
\* (point_in_time.py:130)
RunPitTrial(out) ==
    /\ run.pc = "trial" /\ run.variant = "point_in_time"
    /\ run' = IF out = "Exception"
              THEN [run EXCEPT !.pc = "raised", !.raised = out]
              ELSE [run EXCEPT !.results = Append(@, TrialResult(run.trial_id, out = "pass", "none")),
                               !.raised = "none", !.pc = "callback"]
    /\ RunFrame

\* crash_recovery.py:135-160: one write; the backend holds the event once
\* adapter.write_event returned.
CrWrite(out) ==
    /\ run.pc = "write"
    /\ LET r == write_event(Adp, out)
       IN  /\ SetAdp(r.a)
           /\ run' = IF r.result = "ok"
                     THEN [run EXCEPT !.written = @ + 1, !.raised = "none",
                                      !.pc = IF run.written + 1 = N THEN "kill" ELSE "write"]
                     ELSE [run EXCEPT !.results = Append(@,
                                   FailureResult(run.trial_id, N, run.written, "write_failure")),
                                      !.raised = r.result, !.pc = "callback"]
    /\ UNCHANGED <<lastOp, startedWith, lastCall, suite, wait, grade>>

\* The kill whose failure is only logged: the trial goes on to the restart.
CrKill_logged(out) ==
    /\ run.pc = "kill"
    /\ run' = [run EXCEPT !.raised = IF out = "ok" THEN "none" ELSE out, !.pc = "restart"]
    /\ RunFrame

\* crash_recovery.py:164-186: the delay and the kill
CrKill(out) ==
    /\ run.pc = "kill"
    /\ run' = IF out = "ok"
              THEN [run EXCEPT !.raised = "none", !.pc = "restart"]
              ELSE [run EXCEPT !.results = Append(@,
                                   FailureResult(run.trial_id, N, N, "kill_failure")),
                               !.raised = out, !.pc = "callback"]
    /\ RunFrame

\* What the backend holds after adapter.restart replaced the container
\* (krnx.py:306-315, naive_rag.py:302-309): the new Qdrant container holds
\* nothing; the KRNX service holds what it kept outside its container.
AfterRestart(k, n, durable) == IF k = "krnx" /\ durable THEN n ELSE 0

\* crash_recovery.py:188-205: the restart
CrRestart(out, durable) ==
    /\ run.pc = "restart"
    /\ durable \/ (kind = "krnx" /\ stored > 0)
    /\ run' = IF out = "ok"
              THEN [run EXCEPT !.raised = "none", !.pc = IF N = 0 THEN "result" ELSE "verify"]
              ELSE [run EXCEPT !.results = Append(@,
                                   FailureResult(run.trial_id, N, N, "restart_failure")),
                               !.raised = out, !.pc = "callback"]
    /\ stored' = AfterRestart(kind, stored, durable)
    /\ UNCHANGED <<orchVars, kind, setup_complete, client, event_count, lastCall, suite, wait, grade>>

\* crash_recovery.py:216-242: one event re-read and classified
CrVerify(out) ==
    /\ run.pc = "verify"
    /\ LET c == Classify(out)
       IN  run' = [run EXCEPT
                     !.recovered = IF c = "recovered" THEN @ + 1 ELSE @,
                     !.corrupted = IF c = "corrupted" THEN @ + 1 ELSE @,
                     !.lost = IF c = "lost" THEN @ + 1 ELSE @,
                     !.verified = @ + 1,
                     !.read = out,
                     !.raised = IF out \in {"KeyError", "NotSupported", "Exception"}
                                THEN out ELSE "none",
                     !.pc = IF run.verified + 1 = N THEN "result" ELSE "verify"]
    /\ RunFrame

\* crash_recovery.py:244-263 and 100: the trial's result
CrResult ==
    /\ run.pc = "result"
    /\ run' = [run EXCEPT !.results = Append(@,
                   VerifiedResult(run.trial_id, N, run.recovered, run.corrupted, run.lost)),
                          !.raised = "none", !.read = "none", !.pc = "callback"]
    /\ RunFrame

\* base.py:125-126, crash_recovery.py:101-104, point_in_time.py:91-94
RunCallback ==
    /\ run.pc = "callback"
    /\ run' = [AfterTrial(run) EXCEPT !.callbacks = IF run.callback THEN @ + 1 ELSE @,
                                      !.raised = "none"]
    /\ RunFrame

\* base.py:128-141, crash_recovery.py:106-116, point_in_time.py:96-104
RunReturn ==
    /\ run.pc = "finish"
    /\ LET r == compute_aggregate(run.variant, run.results)
       IN  run' = IF r.raised # "none"
                  THEN [run EXCEPT !.pc = "raised", !.raised = r.raised]
                  ELSE [run EXCEPT !.pc = "returned", !.aggregate = r.value]
    /\ RunFrame

RunNext ==
    \/ RunUnsupported
    \/ RunEnter
    \/ RunClear
    \/ \E out \in {"pass", "fail", "NotSupported", "Exception"} : RunTrial(out)
    \/ \E out \in {"pass", "fail", "Exception"} : RunPitTrial(out)
    \/ \E out \in {"ok", "error"} : CrWrite(out)
    \/ \E out \in {"ok", "APIError"} : CrKill(out)
    \/ \E out \in {"ok", "TimeoutError"}, durable \in BOOLEAN : CrRestart(out, durable)
    \/ \E out \in GetOutcomes : CrVerify(out)
    \/ CrResult
    \/ RunCallback
    \/ RunReturn

SpecRun == RunInit /\ [][RunNext]_vars

\* ================================================================= runners
\* One call of SuiteRunner.run (suite.py:40-155) or of ScenarioRunner.run
\* (scenario.py:35-98).  Each (scenario, adapter) combination gets a new
\* adapter with a new DockerManager on the same daemon; the scenario's run is
\* the run of the scenario engine above.  suite holds the call's locals:
\*   mode                 "suite" | "runner"
\*   scenario_filter, adapter_filter   the filters the suite was called with
\*   scenarios, si        the scenario names and the outer loop's position
\*   tiers, trials        the configured tiers of the tiered scenarios, the
\*                        configured trial count
\*   adapters, ai         the adapter names and the inner loop's position
\*   pc                   where the call is
\*   results              the ScenarioResults kept, as summaries
\*   attempted, failed    the (scenario, adapter) combinations that were
\*                        started, and those that raised
\*   setups, teardowns    calls of setup / teardown in the current combination
\*   setup_failed, exc    whether setup raised; the exception in flight

\* adapters/__init__.py:10-14: the keys of ADAPTERS, in order
ADAPTERS == <<"krnx", "naive_rag", "baseline">>

\* scenarios/__init__.py:36-44: ALL_SCENARIOS, each class by its name
ALL_SCENARIOS == <<"crash_recovery", "fact_correction", "temporal_versioning",
                   "provenance_chain", "point_in_time", "determinism", "niah">>

\* The run loop of a scenario class: its own (crash_recovery.py:55,
\* point_in_time.py:53) or BaseScenario.run.
VariantOf(scenario) ==
    IF scenario \in {"crash_recovery", "point_in_time"} THEN scenario ELSE "default"

\* The supported_adapters attribute of each scenario class
\* (crash_recovery.py:43, point_in_time.py:41, ..., base.py:79)
SupportedAdapters(scenario) ==
    CASE scenario = "crash_recovery" -> {"krnx", "naive_rag"}
      [] scenario \in {"temporal_versioning", "provenance_chain",
                       "point_in_time", "determinism"} -> {"krnx"}
      [] OTHER -> {"krnx", "naive_rag", "baseline"}

\* base.py:190-192
supports_adapter(scenario, adapter_name) == adapter_name \in SupportedAdapters(scenario)

\* The members of a list
Members(seq) == {seq[i] : i \in 1..Len(seq)}

\* suite.py:66-70.  A filter that is None or empty does not filter.
SelectScenarios(skip_baseline, scenario_filter) ==
    LET kept == IF skip_baseline
                THEN SelectSeq(ALL_SCENARIOS, LAMBDA x : x # "niah")   \* niah.py:50
                ELSE ALL_SCENARIOS
    IN  IF scenario_filter # <<>>
        THEN SelectSeq(kept, LAMBDA x : x \in Members(scenario_filter))
        ELSE kept

\* The adapter list taken from the filter itself: the names of the filter
\* that are adapters, in the filter's order and with its repetitions.
SelectAdapters_filter(adapter_filter) ==
    IF adapter_filter # <<>>
    THEN SelectSeq(adapter_filter, LAMBDA x : x \in Members(ADAPTERS))
    ELSE ADAPTERS

\* suite.py:72-75
SelectAdapters(adapter_filter) ==
    IF adapter_filter # <<>>
    THEN SelectSeq(ADAPTERS, LAMBDA x : x \in Members(adapter_filter))
    ELSE ADAPTERS

\* MemoryAdapter.setup (base.py:39-45) of the adapter's class
setup(a, out1, out2) ==
    CASE a.kind = "krnx" -> krnx_setup(a, out1, out2)
      [] a.kind = "naive_rag" -> naive_rag_setup(a, out1)
      [] OTHER -> baseline_setup(a)

\* MemoryAdapter.teardown (base.py:47-53) of the adapter's class
teardown(a, fail) ==
    CASE a.kind = "krnx" -> krnx_teardown(a, fail)
      [] a.kind = "naive_rag" -> naive_rag_teardown(a, fail)
      [] OTHER -> baseline_teardown(a)

\* What the daemon may do to the starts of one setup.
SetupOutcomes(k) ==
    CASE k = "krnx" ->
            {<<o1, o2>> \in StartOutcomes(redis_config) \X StartOutcomes(krnx_config) :
                o1 # "ok" => o2 = "ok"}
      [] k = "naive_rag" -> StartOutcomes(qdrant_config) \X {"ok"}
      [] OTHER -> {<<"ok", "ok">>}

\* setup without the try: a setup that raises leaves the function at once
\* and the finally clause is never entered.
AfterSetup_unguarded(result) == IF result = "ok" THEN "run" ELSE "after"

\* scenario.py:85-98, suite.py:167-179: setup is inside the try, so a setup
\* that raises goes to the finally clause.
AfterSetup(result) == IF result = "ok" THEN "run" ELSE "teardown"

\* models.py:115-124: the ScenarioResult of a combination, as the fields the
\* reports read: how many trials it holds and its aggregate's error marker.
ScenarioSummary(scenario, adapter_name, n, error) ==
    [scenario |-> scenario, adapter |-> adapter_name, trials |-> n, error |-> error]

ThisAdapter == suite.adapters[suite.ai]
ThisScenario == suite.scenarios[suite.si]

\* The skip_baseline, scenario_filter and adapter_filter arguments the suite
\* is called with: one scenario on every adapter, with and without the
\* baseline scenarios; every scenario on one adapter; names out of order and
\* repeated; a name that is no adapter.
SuiteCalls ==
    {<<FALSE, <<"niah">>, <<>>                                                >>,
     <<TRUE,  <<"niah">>, <<>>                                                >>,
     <<FALSE, <<"point_in_time">>, <<>>                                       >>,
     <<FALSE, <<>>, <<"baseline", "qdrant">>                                  >>,
     <<TRUE,  <<"niah", "crash_recovery", "niah">>, <<>>                      >>,
     <<FALSE, <<"niah", "crash_recovery", "niah">>, <<"naive_rag", "krnx", "krnx">> >>}

\* The scenarios ScenarioRunner.run is called with.
RunnerScenarios == {"crash_recovery", "niah", "point_in_time"}

\* The locals of a call that loops over these scenarios and adapters.
NewSuite(mode, sf, af, scenarios, adapters, first, tiers, t) ==
    [mode |-> mode, scenario_filter |-> sf, adapter_filter |-> af,
     scenarios |-> scenarios, si |-> 1, tiers |-> tiers, trials |-> t,
     adapters |-> adapters, ai |-> first, pc |-> "combo",
     results |-> <<>>, attempted |-> {}, failed |-> {},
     setups |-> 0, teardowns |-> 0, setup_failed |-> FALSE,
     exc |-> "none"]

SuiteInit ==
    /\ ManagerInit
    /\ AdapterIdle
    /\ run = RunIdle
    /\ wait = WaitIdle /\ grade = GradeIdle
    /\ \E tiers \in TierConfigs, t \in 1..MaxSuiteTrials :
          \/ \E name \in RunnerScenarios, first \in 1..Len(ADAPTERS) :
                suite = NewSuite("runner", <<>>, <<>>, <<name>>, ADAPTERS, first, tiers, t)
          \/ \E call \in SuiteCalls :
                suite = NewSuite("suite", call[2], call[3],
                                   SelectScenarios(call[1], call[2]),
                                   SelectAdapters(call[3]), 1, tiers, t)

SuiteFrame == UNCHANGED <<lastOp, startedWith, lastCall, wait, grade>>

\* suite.py:113-115: a combination the scenario does not list is skipped
SuiteSkip ==
    /\ suite.mode = "suite" /\ suite.pc = "combo"
    /\ suite.si <= Len(suite.scenarios) /\ suite.ai <= Len(suite.adapters)
    /\ ~supports_adapter(ThisScenario, ThisAdapter)
    /\ suite' = [suite EXCEPT !.ai = @ + 1]
    /\ UNCHANGED <<orchVars, adpVars, run, wait, grade>>

\* The runner making the adapter before it looks at the scenario's list.
RunnerUnsupported_built ==
    /\ suite.mode = "runner" /\ suite.pc = "combo"
    /\ ~supports_adapter(ThisScenario, ThisAdapter)
    /\ kind' = ThisAdapter
    /\ suite' = [suite EXCEPT
                   !.results = <<ScenarioSummary(ThisScenario, ThisAdapter, 0,
                                                 "adapter_not_supported")>>,
                   !.attempted = @ \cup {<<ThisScenario, ThisAdapter>>},
                   !.pc = "returned"]
    /\ UNCHANGED <<orchVars, setup_complete, client, event_count, stored, lastCall,
                   run, wait, grade>>

\* scenario.py:63-73: the runner answers with an empty, marked result
RunnerUnsupported ==
    /\ suite.mode = "runner" /\ suite.pc = "combo"
    /\ ~supports_adapter(ThisScenario, ThisAdapter)
    /\ suite' = [suite EXCEPT
                   !.results = <<ScenarioSummary(ThisScenario, ThisAdapter, 0,
                                                 "adapter_not_supported")>>,
                   !.pc = "returned"]
    /\ UNCHANGED <<orchVars, adpVars, run, wait, grade>>

\* suite.py:164-165, scenario.py:75-80: get_adapter makes a new adapter, whose
\* __init__ makes a new DockerManager (krnx.py:47, docker_utils.py:40-45)
SuiteGetAdapter ==
    /\ suite.pc = "combo"
    /\ suite.si <= Len(suite.scenarios) /\ suite.ai <= Len(suite.adapters)
    /\ supports_adapter(ThisScenario, ThisAdapter)
    /\ kind' = ThisAdapter
    /\ setup_complete' = FALSE /\ client' = FALSE /\ event_count' = 0 /\ stored' = 0
    /\ containers' = EmptyDict /\ service_configs' = EmptyDict /\ network' = FALSE
    /\ run' = RunIdle
    /\ suite' = [suite EXCEPT !.pc = "setup",
                              !.attempted = @ \cup {<<ThisScenario, ThisAdapter>>},
                              !.setups = 0, !.teardowns = 0,
                              !.setup_failed = FALSE, !.exc = "none"]
    /\ UNCHANGED <<docker, lastOp, startedWith, lastCall, wait, grade>>

\* scenario.py:85-86, suite.py:167-168
SuiteSetup(out1, out2) ==
    /\ suite.pc = "setup"
    /\ <<out1, out2>> \in SetupOutcomes(kind)
    /\ LET r == setup(Adp, out1, out2)
       IN  /\ SetAdp(r.a)
           /\ suite' = [suite EXCEPT !.setups = @ + 1,
                                     !.setup_failed = r.result # "ok",
                                     !.exc = IF r.result = "ok" THEN "none" ELSE r.result,
                                     !.pc = AfterSetup(r.result)]
           /\ run' = IF r.result = "ok"
                     THEN NewRun(VariantOf(ThisScenario), suite.trials,
                                 suite.mode = "runner", suite.tiers)
                     ELSE run
    /\ SuiteFrame

\* scenario.py:88-93, suite.py:170-174: one step of scenario.run
SuiteRun ==
    /\ suite.pc = "run"
    /\ run.pc \notin {"returned", "raised"}
    /\ RunNext

\* scenario.run outside the try: a run that raises leaves _run_scenario at
\* once, past the teardown.
SuiteRunEnd_unguarded ==
    /\ suite.pc = "run"
    /\ run.pc \in {"returned", "raised"}
    /\ suite' = [suite EXCEPT !.pc = IF run.pc = "raised" THEN "after" ELSE "teardown",
                              !.exc = IF run.pc = "raised" THEN run.raised ELSE "none"]
    /\ UNCHANGED <<orchVars, adpVars, run, wait, grade>>

\* scenario.py:95-97, suite.py:176-178: scenario.run returned or raised
SuiteRunEnd ==
    /\ suite.pc = "run"
    /\ run.pc \in {"returned", "raised"}
    /\ suite' = [suite EXCEPT !.pc = "teardown",
                              !.exc = IF run.pc = "raised" THEN run.raised ELSE "none"]
    /\ UNCHANGED <<orchVars, adpVars, run, wait, grade>>

\* scenario.py:97-98, suite.py:178-179: the finally clause
SuiteTeardown(fail) ==
    /\ suite.pc = "teardown"
    \* a call that is not made does not fail (see CleanupAllCall)
    /\ fail.remove \cap fail.stop = {}
    /\ fail.force \subseteq fail.stop \cup fail.remove
    /\ LET r == teardown(Adp, fail)
       IN  /\ SetAdp(r.a)
           /\ suite' = [suite EXCEPT !.teardowns = @ + 1, !.pc = "after"]
    /\ UNCHANGED <<run, wait, grade>>
    /\ SuiteFrame

\* The ScenarioResult scenario.run returns (base.py:133-141,
\* crash_recovery.py:108-116, point_in_time.py:96-104): it names the scenario
\* object and the adapter object it ran on, whose name attribute is the key of
\* its class in ADAPTERS (krnx.py:42, naive_rag.py:50, baseline.py:30).
RunResult == ScenarioSummary(ThisScenario, kind, Len(run.results), "none")

\* The daemon without the containers that no longer exist.  No handle is
\* held when it is applied.
Compact(dk) == SelectSeq(dk, LAMBDA c : c.status # "removed")

\* suite.py:120-139: the result is kept, or the exception is logged.
\* _run_scenario is over: its adapter, the adapter's manager and the locals of
\* scenario.run are gone; the daemon and what it still holds stay.
SuiteRecord ==
    /\ suite.mode = "suite" /\ suite.pc = "after"
    /\ suite' = IF suite.exc = "none"
                THEN [suite EXCEPT !.results = Append(@, RunResult),
                                   !.ai = @ + 1, !.pc = "combo"]
                ELSE [suite EXCEPT !.failed = @ \cup {<<ThisScenario, ThisAdapter>>},
                                   !.ai = @ + 1, !.pc = "combo"]
    /\ run' = RunIdle
    /\ kind' = "none" /\ setup_complete' = FALSE /\ client' = FALSE
    /\ event_count' = 0 /\ stored' = 0
    /\ containers' = EmptyDict /\ service_configs' = EmptyDict /\ network' = FALSE
    /\ docker' = Compact(docker)
    /\ SuiteFrame

\* scenario.py:95-98: the runner returns the result, or the exception leaves it
RunnerEnd ==
    /\ suite.mode = "runner" /\ suite.pc = "after"
    /\ suite' = IF suite.exc = "none"
                THEN [suite EXCEPT !.results = <<RunResult>>, !.pc = "returned"]
                ELSE [suite EXCEPT !.failed = @ \cup {<<ThisScenario, ThisAdapter>>},
                                   !.pc = "raised"]
    /\ UNCHANGED <<orchVars, adpVars, run, wait, grade>>

\* suite.py:108-112: the inner loop is over; the next scenario class
SuiteNextScenario ==
    /\ suite.mode = "suite" /\ suite.pc = "combo"
    /\ suite.si <= Len(suite.scenarios) /\ suite.ai > Len(suite.adapters)
    /\ suite' = [suite EXCEPT !.si = @ + 1, !.ai = 1]
    /\ UNCHANGED <<orchVars, adpVars, run, wait, grade>>

\* suite.py:141-155
SuiteDone ==
    /\ suite.mode = "suite" /\ suite.pc = "combo" /\ suite.si > Len(suite.scenarios)
    /\ suite' = [suite EXCEPT !.pc = "done"]
    /\ UNCHANGED <<orchVars, adpVars, run, wait, grade>>

SuiteNext ==
    \/ SuiteSkip
    \/ RunnerUnsupported
    \/ SuiteGetAdapter
    \/ \E out1, out2 \in AllStartOutcomes : SuiteSetup(out1, out2)
    \/ SuiteRun
    \/ SuiteRunEnd
    \/ \E fail \in FailingTracked : SuiteTeardown(fail)
    \/ SuiteRecord
    \/ RunnerEnd
    \/ SuiteNextScenario
    \/ SuiteDone

SpecSuite == SuiteInit /\ [][SuiteNext]_vars

\* ------------------------------------------------------------ entry points
\* One call of either entry point: a runner (SuiteRunner.run or
\* ScenarioRunner.run), which makes the adapter it hands to scenario.run, or
\* scenario.run itself on an adapter of any class the caller made.
EntryInit == SuiteInit \/ RunInit

EntryNext ==
    \/ SuiteNext
    \/ suite = SuiteIdle /\ RunNext

SpecEntry == EntryInit /\ [][EntryNext]_vars

\* ------------------------------------------------------------------ claims

\* C1: a kill of a tracked service leaves the registry as it was: the
\* container record and the stored config of that name are both still there
\* after the call, and when the call returns normally the container has been
\* sent SIGKILL.
C1_KillKeepsBookkeeping ==
    [][(lastOp'.op = "kill" /\ lastOp'.name \in Keys(containers)) =>
          /\ containers' = containers
          /\ service_configs' = service_configs
          /\ lastOp'.name \in Keys(containers') \cap Keys(service_configs')
          /\ lastOp'.result \in {"ok", "APIError"}
          /\ (lastOp'.result = "ok" =>
                docker'[containers[lastOp'.name]].status = "killed")]_vars

\* A kill has returned normally and the killed container is still tracked,
\* with its config.
C1_Witness ==
    /\ lastOp.op = "kill" /\ lastOp.result = "ok"
    /\ lastOp.name \in Keys(containers) \cap Keys(service_configs)
    /\ docker[containers[lastOp.name]].status = "killed"

\* C2: the stored config of a name is always the one its last storing start
\* was called with (no kill, stop, restart, cleanup or failed health wait
\* alters it), and the container a restart launches is launched with exactly
\* that config.
C2_RestartUsesStoredSpec ==
    [][/\ service_configs' = startedWith'
       /\ (lastOp'.op = "restart" /\ Len(docker') > Len(docker)) =>
              /\ docker'[Len(docker')].name = lastOp'.name
              /\ docker'[Len(docker')].config = startedWith[lastOp'.name]]_vars

\* A restart has launched a healthy second container with a config that
\* declares a health URL: the one the start was called with.
C2_Witness ==
    /\ lastOp.op = "restart" /\ lastOp.result = "ok"
    /\ lastOp.name \in Keys(containers)
    /\ containers[lastOp.name] = 2
    /\ docker[2].status = "healthy"
    /\ docker[2].config = startedWith[lastOp.name]
    /\ docker[2].config.healthcheck_url

Last(results) == results[Len(results)]

Appended == Len(run'.results) = Len(run.results) + 1

\* A step of a trial body in which the adapter (or the body) raised something
\* other than NotSupported, in the default loop or the crash-recovery loop.
BodyRaised ==
    /\ run.variant \in {"default", "crash_recovery"}
    /\ run.pc \in {"trial", "write", "kill", "restart", "verify"}
    /\ run'.raised \notin {"none", "NotSupported"}

\* The error_type the loop of the variant records for an exception met at pc.
StageLabel(variant, pc) ==
    CASE variant = "default" -> "exception"
      [] pc = "write" -> "write_failure"
      [] pc = "kill" -> "kill_failure"
      [] OTHER -> "restart_failure"

\* C3 (as stated): in the default loop and in the crash-recovery loop, an
\* exception other than NotSupported raised inside a trial body is recorded as
\* a TrialResult with success = false and error_type = "exception".
C3_RecordedAsException ==
    [][BodyRaised =>
          /\ Appended
          /\ Last(run'.results).success = FALSE
          /\ Last(run'.results).error_type = "exception"]_vars

\* C3 (amended): an exception other than NotSupported raised inside a trial
\* body never leaves run and the loop goes on to the callback and to the next
\* iteration; it is recorded in that trial's TrialResult with success = false:
\* as error_type "exception" by the default loop, as "write_failure",
\* "kill_failure" or "restart_failure" by the crash-recovery body for the
\* stage that raised, and as one more lost event (hence success = false) when
\* a re-read raised.
C3_Contained ==
    [][/\ BodyRaised =>
             /\ run'.pc # "raised"
             /\ IF run.pc = "verify"
                THEN /\ run'.lost = run.lost + 1
                     /\ run'.results = run.results
                     /\ run'.pc \in {"verify", "result"}
                ELSE /\ Appended
                     /\ Last(run'.results).trial_id = run.trial_id
                     /\ Last(run'.results).success = FALSE
                     /\ Last(run'.results).error_type = StageLabel(run.variant, run.pc)
                     /\ run'.pc = "callback"
       /\ (run.pc = "result" /\ run.lost > 0) =>
             /\ Appended
             /\ Last(run'.results).success = FALSE
             /\ run'.pc = "callback"
       /\ (run.pc = "callback" /\ run.variant = "default") =>
             run'.pc = IF run.trial_id + 1 < run.trials THEN "clear" ELSE "finish"
       /\ (run.pc = "callback" /\ run.variant = "crash_recovery") =>
             run'.pc = IF run.trial_id + 1 < Len(run.tiers) * TrialsPerTier(run.trials, run.tiers)
                       THEN "clear" ELSE "finish"]_vars

C3_Witness ==
    /\ run.variant = "crash_recovery"
    /\ Len(run.results) >= 2
    /\ run.results[1].error_type = "kill_failure"
    /\ run.results[1].success = FALSE
    /\ run.results[2].trial_id = 1

\* C4: a clear() that fails before a trial is recorded as that trial's
\* TrialResult with success = false and error_type = "exception", and the run
\* goes on.
C4_ClearFailureRecorded ==
    [][(run.pc = "clear" /\ run'.raised # "none") =>
          /\ Appended
          /\ Last(run'.results).success = FALSE
          /\ Last(run'.results).error_type = "exception"
          /\ run'.pc # "raised"]_vars

C6_ExactlyTrialCount ==
    run.pc = "returned" => Len(run.results) = run.trials

\* C7: at the end of a run given a progress_callback, the callback has been
\* invoked as many times as the returned ScenarioResult holds TrialResults.
C7_CallbackPerTrial ==
    (run.pc = "returned" /\ run.callback) => run.callbacks = Len(run.results)

\* The results of crash-recovery trials that reached verification.
Verified(r) == r.recovered # -1

\* C8: in a crash-recovery trial that reaches verification with N events
\* written, recovered + corrupted + lost = N, and success is true exactly when
\* recovered = N and corrupted = 0; while the events are re-read the three
\* counters add up to the number of events re-read so far.
C8_CountsAddUp ==
    /\ run.pc \in {"verify", "result"} =>
          /\ run.recovered + run.corrupted + run.lost = run.verified
          /\ run.written = N
          /\ run.pc = "result" => run.verified = N
    /\ \A i \in 1..Len(run.results) :
          LET r == run.results[i]
          IN  Verified(r) =>
                /\ r.events_written = r.event_count
                /\ r.recovered + r.corrupted + r.lost = r.event_count
                /\ r.success <=> (r.recovered = r.event_count /\ r.corrupted = 0)

C8_Witness ==
    /\ run.pc = "returned"
    /\ \E i, j \in 1..Len(run.results) :
          /\ Verified(run.results[i]) /\ run.results[i].success
          /\ run.results[i].event_count = 2
          /\ Verified(run.results[j]) /\ ~run.results[j].success
          /\ run.results[j].recovered = 1 /\ run.results[j].lost = 1

\* The operations of an adapter other than setup, teardown and supports.
Operations == {"clear", "write_event", "query", "get_event",
               "replay_to", "get_provenance", "kill", "restart"}

\* C9: an operation attempted on an adapter that is not set up (before setup
\* or after teardown) fails with the "adapter not set up" error.
C9_NotSetUpError ==
    [][(~setup_complete /\ lastCall'.op \in Operations) =>
          lastCall'.result = NotSetUp]_vars

\* The capability that gates each extended operation.
Gate == [replay_to |-> "replay", get_provenance |-> "provenance",
         kill |-> "fault_injection", restart |-> "fault_injection"]

\* C10: for every adapter, an extended operation (replay_to, get_provenance,
\* kill, restart) whose capability the adapter's supports() denies raises
\* NotSupported and leaves the adapter and its services as they were; no
\* operation is gated by "versioning".
C10_CapabilityGating ==
    [][(lastCall'.op \in DOMAIN Gate /\ ~supports(kind, Gate[lastCall'.op])) =>
          /\ lastCall'.result = "NotSupported"
          /\ UNCHANGED <<setup_complete, client, event_count,
                         containers, service_configs, network, docker>>]_vars

C10_Witness ==
    /\ kind = "naive_rag" /\ setup_complete
    /\ lastCall.op = "replay_to" /\ lastCall.result = "NotSupported"
    /\ ~supports(kind, "replay")

\* C11: cleanup_all never raises and sweeps every tracked container whatever
\* fails: for every subset of failing stop, remove, forced-remove and
\* network-remove calls it returns normally with the registry empty and the
\* network handle released, and every tracked container of which one of the
\* two removal attempts can succeed is removed, whichever other calls fail.
C11_CleanupComplete ==
    /\ lastOp.op = "cleanup_all" =>
          lastOp.result = "ok" /\ containers = EmptyDict /\ ~network
    /\ \A fail \in FailingTracked :
          LET r == cleanup_all(Mgr, fail)
          IN  /\ r.result = "ok"
              /\ r.m.containers = EmptyDict
              /\ ~r.m.network
              /\ r.m.service_configs = service_configs
              /\ \A name \in Keys(containers) :
                    LET c == containers[name]
                    IN  (/\ docker[c].status # "removed"
                         /\ (name \notin fail.force \/ name \notin fail.stop \cup fail.remove))
                            => r.m.docker[c].status = "removed"

C11_Witness ==
    /\ lastOp.op = "cleanup_all" /\ lastOp.result = "ok"
    /\ containers = EmptyDict /\ ~network
    /\ Len(docker) = 2
    /\ docker[1].status = "stopped"
    /\ docker[2].status = "removed"

\* C12: a teardown that follows a failed setup (some services started, a later
\* one failing) returns normally and leaves no tracked container, no network
\* handle, no backend client and the setup-complete flag false, whatever fails
\* while it cleans up.
C12_TeardownAfterFailedSetup ==
    [][(lastCall.op = "setup" /\ lastCall.result # "ok" /\ lastCall'.op = "teardown") =>
          /\ lastCall'.result = "ok"
          /\ containers' = EmptyDict
          /\ ~network'
          /\ ~setup_complete'
          /\ ~client']_vars

\* After the teardown of a krnx adapter whose setup started redis and timed
\* out on krnx: the krnx container was never healthy and is tracked no more.
C12_Witness ==
    /\ kind = "krnx"
    /\ lastCall.op = "teardown" /\ lastCall.result = "ok"
    /\ Len(docker) = 2
    /\ docker[1] = Gone("redis")
    /\ docker[2].name = "krnx" /\ docker[2].status = "starting"
    /\ containers = EmptyDict /\ ~network /\ ~setup_complete /\ ~client

\* C13: teardown is idempotent: a teardown called right after a teardown, on
\* any adapter, returns normally and leaves the adapter, the registry, the
\* network handle and the containers as the first call left them.
C13_TeardownIdempotent ==
    [][(lastCall.op = "teardown" /\ lastCall'.op = "teardown") =>
          /\ lastCall.result = "ok"
          /\ lastCall'.result = "ok"
          /\ UNCHANGED <<kind, setup_complete, client, event_count,
                         containers, service_configs, network, docker>>]_vars

\* A krnx adapter that was set up and torn down, on which teardown can be
\* called again.
C13_Witness ==
    /\ kind = "krnx"
    /\ lastCall.op = "teardown" /\ lastCall.result = "ok"
    /\ Len(docker) = 2 /\ docker[1] = Gone("redis") /\ docker[2] = Gone("krnx")
    /\ Keys(service_configs) = {"redis", "krnx"}
    /\ containers = EmptyDict /\ ~network /\ ~setup_complete /\ ~client

\* C14: every (scenario, adapter) combination the suite attempted has a
\* ScenarioResult in the SuiteResult, and the result of a combination that
\* failed carries an error marker in its aggregate.
C14_EveryCombinationReported ==
    (suite.mode = "suite" /\ suite.pc = "done") =>
        \A c \in suite.attempted :
            \E i \in 1..Len(suite.results) :
                /\ suite.results[i].scenario = c[1]
                /\ suite.results[i].adapter = c[2]
                /\ c \in suite.failed => suite.results[i].error # "none"

\* C15: in a (scenario, adapter) run, a setup that fails is followed by no
\* clear and no trial, its exception reaches the caller, and teardown is
\* called exactly once; after a setup that succeeds teardown is called exactly
\* once, after the scenario's run has returned or raised, and what the run
\* raised reaches the caller.
C15_TeardownOnce ==
    /\ suite.pc \in {"setup", "run", "teardown", "after"} =>
          /\ suite.teardowns = IF suite.pc = "after" THEN 1 ELSE 0
          /\ suite.setups = IF suite.pc = "setup" THEN 0 ELSE 1
          /\ suite.setup_failed =>
                /\ suite.pc \in {"teardown", "after"}
                /\ run = RunIdle
                /\ suite.exc # "none"
          /\ (suite.pc \in {"teardown", "after"} /\ ~suite.setup_failed) =>
                /\ run.pc \in {"returned", "raised"}
                /\ run.pc = "raised" <=> suite.exc # "none"
                /\ run.pc = "raised" => suite.exc = run.raised
          /\ suite.pc = "run" => ~suite.setup_failed /\ suite.exc = "none"
    /\ suite.pc = "raised" =>
          suite.exc # "none" /\ suite.teardowns = 1 /\ suite.setups = 1
    /\ (suite.pc = "returned" /\ suite.attempted # {}) =>
          suite.exc = "none" /\ suite.teardowns = 1 /\ suite.setups = 1
    /\ \A c \in suite.failed : c \in suite.attempted

\* The runner left by the exception of a krnx setup whose second start timed
\* out: teardown ran once and no run was started.
C15_Witness ==
    /\ suite.mode = "runner" /\ suite.pc = "raised"
    /\ kind = "krnx"
    /\ suite.setup_failed /\ suite.exc = "TimeoutError"
    /\ suite.teardowns = 1
    /\ run = RunIdle
    /\ containers = EmptyDict /\ ~setup_complete

\* C16: after a start (or the start of a restart) that failed because health
\* was not reached in time, the launched container is the one the registry
\* holds for its name, with the spec it was launched with, it is the only
\* container of that name, the network handle is held, and a following
\* cleanup_all or restart removes it.
C16_TimeoutRecoverable ==
    (lastOp.op \in {"start", "restart"} /\ lastOp.result = "TimeoutError") =>
        /\ network
        /\ lastOp.name \in Keys(containers) \cap Keys(service_configs)
        /\ LET c == containers[lastOp.name]
           IN  /\ c = Len(docker)
               /\ docker[c].name = lastOp.name
               /\ docker[c].status = "starting"
               /\ docker[c].config = service_configs[lastOp.name]
               /\ Existing(docker, lastOp.name) = {c}
               /\ cleanup_all(Mgr, NoFailure).m.docker[c].status = "removed"
               /\ \A out \in StartOutcomes(service_configs[lastOp.name]) :
                     restart_service(Mgr, lastOp.name, out).m.docker[c].status = "removed"

C16_Witness ==
    /\ lastOp.op = "start" /\ lastOp.result = "TimeoutError"
    /\ lastOp.name \in Keys(containers)
    /\ docker[containers[lastOp.name]].status = "starting"
    /\ network
    /\ Len(docker) = 2 /\ docker[1].status = "healthy"

\* C17: stop is idempotent: on an untracked name it returns normally and
\* changes neither the registry nor any container; a stop that returned has
\* untracked the name, so a second stop of it changes nothing, and a stop that
\* raised has changed nothing, so that stopping twice (the daemon answering
\* alike) leaves what stopping once leaves.
C17_StopIdempotent ==
    /\ (lastOp.op = "stop" /\ lastOp.result = "ok") => lastOp.name \notin Keys(containers)
    /\ \A name \in Names, out \in StopOutcomes :
          LET r == stop_service(Mgr, name, out)
          IN  /\ name \notin Keys(containers) => r = Ret(Mgr, "ok")
              /\ r.result = "ok" =>
                    \A out2 \in StopOutcomes : stop_service(r.m, name, out2) = Ret(r.m, "ok")
              /\ r.result # "ok" => r.m = Mgr
              /\ stop_service(r.m, name, out).m = r.m

\* After a stop of a started service: the name is untracked, its container is
\* stopped, and a second stop is a no-op.
C17_Witness ==
    /\ lastOp.op = "stop" /\ lastOp.result = "ok"
    /\ lastOp.name \notin Keys(containers)
    /\ lastOp.name \in Keys(service_configs)
    /\ \E i \in 1..Len(docker) : docker[i].name = lastOp.name /\ docker[i].status = "stopped"

\* C18: a container becomes killed only in a call of kill(name); no call of
\* stop(name), its error path included, kills a container.
C18_KilledOnlyByKill ==
    [][\A i \in 1..Len(docker) :
          (docker[i].status # "killed" /\ docker'[i].status = "killed") =>
              lastOp'.op = "kill"]_vars

\* C19: is_alive never raises and changes no state: every call answers true
\* or false and leaves the registry, the network handle and the containers as
\* they were; the answer is false for an untracked name and whenever the
\* inspection fails, and true only when the tracked container is running; the
\* krnx adapter's is_alive is true only when that holds for its service.
C19_IsAliveSafe ==
    [][lastOp'.op = "is_alive" =>
          /\ lastOp'.result \in {"true", "false"}
          /\ UNCHANGED <<containers, service_configs, network, docker>>
          /\ lastOp'.result = "true" =>
                /\ lastOp'.name \in Keys(containers)
                /\ Running(docker[containers[lastOp'.name]].status)
          /\ \A out \in InspectOutcomes :
                LET b == is_service_alive(Mgr, lastOp'.name, out)
                IN  /\ lastOp'.name \notin Keys(containers) => ~b
                    /\ out = "inspect_error" => ~b
                    /\ b <=> (/\ lastOp'.name \in Keys(containers)
                              /\ out = "ok"
                              /\ Running(docker[containers[lastOp'.name]].status))
          /\ \A cl \in BOOLEAN, out \in InspectOutcomes, http \in HttpOuts :
                krnx_is_alive([Adp EXCEPT !.kind = "krnx", !.client = cl], out, http) =>
                    /\ "krnx" \in Keys(containers)
                    /\ Running(docker[containers["krnx"]].status)
                    /\ out = "ok"]_vars

\* An inspection that failed on a tracked, running container: the answer was
\* false.
C19_Witness ==
    /\ lastOp.op = "is_alive" /\ lastOp.result = "false"
    /\ lastOp.name \in Keys(containers)
    /\ Running(docker[containers[lastOp.name]].status)

\* The capability set each adapter type advertises.
StaticCapabilities ==
    [krnx |-> {"replay", "provenance", "fault_injection", "versioning"},
     naive_rag |-> {"fault_injection"},
     baseline |-> {}]

\* C20: supports(capability) answers from the static capability set of the
\* adapter's type, with the same answer in every lifecycle state (before
\* setup, set up, after kill, after teardown), and changes nothing of the
\* adapter or of its orchestrator.
C20_SupportsPure ==
    [][lastCall'.op = "supports" =>
          /\ lastCall'.result =
                IF lastCall'.name \in StaticCapabilities[kind] THEN "true" ELSE "false"
          /\ \A capability \in Capabilities :
                supports(kind, capability) <=> capability \in StaticCapabilities[kind]
          /\ UNCHANGED <<kind, setup_complete, client, event_count,
                         containers, service_configs, network, docker>>]_vars

\* supports asked of a krnx adapter whose service has been killed.
C20_Witness ==
    /\ kind = "krnx" /\ setup_complete
    /\ lastCall.op = "supports" /\ lastCall.name = "fault_injection"
    /\ lastCall.result = "true"
    /\ "krnx" \in Keys(containers)
    /\ docker[containers["krnx"]].status = "killed"

\* C21: for every adapter, a clear that returns after any number of writes
\* leaves the adapter as it is right after setup: the backend holds no event
\* that was written before (none is retrievable) and the identifier counter
\* is back at its first value.
C21_ClearLikeFresh ==
    (lastCall.op = "clear" /\ lastCall.result = "ok") =>
        (stored = 0 /\ event_count = 0)

\* C22: the default aggregate of a returned run is exact: over a non-empty
\* result list success_rate is the number of successful trials divided by the
\* number of trials, a division by a non-zero count, and total_trials is the
\* length of the list; over an empty list the aggregate is the empty dict.
C22_AggregateExact ==
    (run.pc = "returned" /\ run.variant = "default") =>
        IF Len(run.results) = 0
        THEN run.aggregate = EmptyDict
        ELSE /\ DOMAIN run.aggregate = {"success_rate", "total_trials"}
             /\ run.aggregate.total_trials = Len(run.results)
             /\ run.aggregate.success_rate.den # 0
             /\ run.aggregate.success_rate.num * Len(run.results) =
                   Cardinality({i \in 1..Len(run.results) : run.results[i].success})
                      * run.aggregate.success_rate.den

\* A returned default run of three trials of which one passed, one failed
\* without raising and one raised.
C22_Witness ==
    /\ run.pc = "returned" /\ run.variant = "default"
    /\ Len(run.results) = 3
    /\ run.aggregate.success_rate = TrueDiv(1, 3)
    /\ \E i \in 1..3 : ~run.results[i].success /\ run.results[i].error_type = "none"
    /\ \E i \in 1..3 : run.results[i].error_type = "exception"

\* A returned default run of no trial: the aggregate is empty.
C22_WitnessEmpty ==
    run.pc = "returned" /\ run.variant = "default" /\ run.trials = 0 /\ run.aggregate = EmptyDict

\* The (scenario, adapter) pair a ScenarioResult names.
Pair(result) == <<result.scenario, result.adapter>>

\* C23: the results of a suite run never hold two ScenarioResults of one
\* (scenario, adapter) pair, whatever the scenario and adapter filters, and
\* every ScenarioResult the suite keeps names the scenario and the adapter of
\* the combination whose run produced it.
C23_UniquePairs ==
    [][/\ \A i, j \in 1..Len(suite'.results) :
             Pair(suite'.results[i]) = Pair(suite'.results[j]) => i = j
       /\ (suite.mode = "suite" /\ Len(suite'.results) > Len(suite.results)) =>
             /\ suite'.results = Append(suite.results, Last(suite'.results))
             /\ Pair(Last(suite'.results)) = <<ThisScenario, ThisAdapter>>
             /\ Last(suite'.results).trials = Len(run.results)
             /\ <<ThisScenario, ThisAdapter>> \in suite.attempted]_vars

\* A finished suite run whose filters named a scenario and an adapter twice:
\* both scenarios ran on both adapters and four results are kept.
C23_Witness ==
    /\ suite.mode = "suite" /\ suite.pc = "done"
    /\ suite.scenario_filter = <<"niah", "crash_recovery", "niah">>
    /\ suite.adapter_filter = <<"naive_rag", "krnx", "krnx">>
    /\ Len(suite.results) = 4
    /\ Pair(suite.results[1]) = <<"crash_recovery", "krnx">>
    /\ Pair(suite.results[4]) = <<"niah", "naive_rag">>

\* The last call was a start or restart whose new container was recorded and
\* whose health wait then failed: the record it made is still there.
HealthWaitFailed ==
    /\ lastOp.op \in {"start", "restart"} /\ lastOp.result # "ok"
    /\ lastOp.name \in Keys(containers)
    /\ docker[containers[lastOp.name]].status # "removed"

\* C24: a start whose health wait did not succeed, by whichever of the three
\* health methods, fails with TimeoutError; the health wait raises no other
\* kind of error.
C24_HealthWaitTimeout ==
    HealthWaitFailed => lastOp.result = "TimeoutError"

\* C25: on every path of an adapter that starts a service (setup, for each of
\* its services, and restart), a start that failed because the host port is
\* already bound reaches the caller as the port-conflict error, never as the
\* daemon's generic error.
C25_PortConflictDistinct ==
    [][(/\ lastCall'.op \in {"setup", "restart"}
        /\ Len(docker') > Len(docker)
        /\ Last(docker').status = "created") =>
          lastCall'.result = SetupError("PortInUse")]_vars

\* The stage of a crash-recovery trial whose failure each error type records.
StageOf == [write_failure |-> "write", kill_failure |-> "kill",
            restart_failure |-> "restart"]

\* C26: a crash-recovery trial goes write, delay and kill, restart, verify in
\* that order: the kill comes only after all N writes succeeded, the restart
\* only after the kill succeeded, a verification read only after the restart
\* succeeded; a write, kill or restart that fails ends the trial at once with
\* success=false and error_type write_failure, kill_failure or
\* restart_failure, and no later step of the trial runs.
C26_FixedOrder ==
    [][run.variant = "crash_recovery" =>
          /\ (run'.pc = "kill" /\ run.pc # "kill") =>
                run.pc \in {"write", "clear"} /\ run'.raised = "none" /\ run'.written = N
          /\ (run'.pc = "restart" /\ run.pc # "restart") =>
                run.pc = "kill" /\ run'.raised = "none" /\ run'.written = N
          /\ (run'.pc = "verify" /\ run.pc # "verify") =>
                run.pc = "restart" /\ run'.raised = "none" /\ run'.written = N
          /\ run'.verified > run.verified => run.pc = "verify"
          /\ (run.pc \in {"write", "kill", "restart"} /\ run'.raised # "none") =>
                /\ Appended
                /\ ~Last(run'.results).success
                /\ Last(run'.results).error_type \in DOMAIN StageOf
                /\ StageOf[Last(run'.results).error_type] = run.pc
                /\ Last(run'.results).trial_id = run.trial_id
                /\ run'.pc = "callback"
                /\ run'.verified = 0 /\ run'.written = run.written
          /\ (Appended /\ Last(run'.results).error_type \in DOMAIN StageOf) =>
                /\ run.pc = StageOf[Last(run'.results).error_type]
                /\ run'.raised # "none"]_vars

\* A trial of two events that ended at its failed restart: both writes and the
\* kill succeeded and no event was re-read.
C26_Witness ==
    /\ run.variant = "crash_recovery" /\ run.pc = "callback"
    /\ Len(run.results) > 0
    /\ Last(run.results).error_type = "restart_failure"
    /\ Last(run.results).events_written = 2
    /\ run.written = 2 /\ run.verified = 0
    /\ run.raised = "TimeoutError"

\* C27: in the verification of a crash-recovery trial a get_event that raises
\* NotSupported counts its event as recovered, neither lost nor corrupted, so
\* a trial whose reads all raised NotSupported (none was counted lost or
\* corrupted) is a success once its writes, kill and restart succeeded.
C27_UnverifiableIsRecovered ==
    [][run.variant = "crash_recovery" =>
          /\ (run.pc = "verify" /\ run'.raised = "NotSupported") =>
                /\ run'.recovered = run.recovered + 1
                /\ run'.corrupted = run.corrupted /\ run'.lost = run.lost
          /\ (run.pc = "result" /\ run.lost = 0 /\ run.corrupted = 0) =>
                /\ Appended
                /\ Last(run'.results).success
                /\ Last(run'.results).recovered = N
                /\ Last(run'.results).error_type = "none"]_vars

\* A trial of two events at its result, on an adapter whose get_event raises
\* NotSupported: the last read raised NotSupported and both events were
\* counted recovered.
C27_Witness ==
    /\ run.variant = "crash_recovery" /\ run.pc = "result"
    /\ N = 2 /\ run.verified = 2
    /\ run.raised = "NotSupported"
    /\ run.recovered = 2 /\ run.lost = 0 /\ run.corrupted = 0

\* C28: in the verification after a successful kill and restart, an event is
\* counted recovered only if get_event returned content and checksum that
\* match the original write, or raised NotSupported; an event re-read with
\* different content or a mismatching checksum is counted corrupted, one that
\* is not found is counted lost, and a trial with such an event is no success.
C28_RecoveredOnlyIfMatching ==
    [][(run.variant = "crash_recovery" /\ run.pc = "verify") =>
          /\ run'.recovered > run.recovered => run'.read \in {"match", "NotSupported"}
          /\ run'.read \in {"bad_content", "bad_checksum"} =>
                run'.corrupted = run.corrupted + 1
          /\ run'.read = "KeyError" => run'.lost = run.lost + 1
          /\ (run'.pc = "result" /\ run'.lost + run'.corrupted > 0) =>
                ~Success(run'.recovered, run'.corrupted, N)]_vars

\* C29: a restart that returns normally leaves the registry holding, for the
\* name, the newly started healthy container, the only container of that
\* name; the dead container is removed and its record dropped before the new
\* start, so that after a restart the registry never holds the old container:
\* it holds the new one when the start got as far as the health wait, and
\* none when containers.run raised.
C29_RestartTracksNew ==
    [][(lastOp'.op = "restart" /\ lastOp'.result # "ValueError") =>
          LET name == lastOp'.name
          IN  /\ name \in Keys(containers) =>
                    /\ docker'[containers[name]].status = "removed"
                    /\ name \in Keys(containers') => containers'[name] # containers[name]
              /\ name \in Keys(containers') =>
                    /\ Len(docker') = Len(docker) + 1
                    /\ containers'[name] = Len(docker')
                    /\ docker'[Len(docker')].name = name
                    /\ Existing(docker', name) = {Len(docker')}
              /\ lastOp'.result = "ok" =>
                    /\ name \in Keys(containers')
                    /\ docker'[containers'[name]].status = "healthy"
              /\ lastOp'.result \in {"TimeoutError", "RuntimeError"} =>
                    name \in Keys(containers')
              /\ lastOp'.result \in {"APIError", "PortInUse"} =>
                    name \notin Keys(containers')]_vars

\* A killed service has been restarted: its first container is removed and
\* the registry holds the second, healthy one, the only container of the name.
C29_Witness ==
    /\ lastOp.op = "restart" /\ lastOp.result = "ok"
    /\ Len(docker) = 2
    /\ docker[1] = Gone(lastOp.name)
    /\ lastOp.name \in Keys(containers)
    /\ containers[lastOp.name] = 2
    /\ docker[2].name = lastOp.name /\ docker[2].status = "healthy"
    /\ Existing(docker, lastOp.name) = {2}

\* C30: when container.stop raises inside a stop of a tracked running
\* container, the container is killed instead; a stop that returns has
\* dropped the name from the registry and no stop touches the stored configs.
C30_StopEscalates ==
    /\ \A name \in Keys(containers) :
          LET c == containers[name]
              r == stop_service(Mgr, name, "stop_error")
          IN  /\ Running(docker[c].status) =>
                    /\ r.result = "ok"
                    /\ r.m.docker[c].status = "killed"
                    /\ name \notin Keys(r.m.containers)
              /\ ~Running(docker[c].status) => r = Ret(Mgr, "APIError")
    /\ \A name \in Names, out \in StopOutcomes :
          LET r == stop_service(Mgr, name, out)
          IN  /\ r.result = "ok" => name \notin Keys(r.m.containers)
              /\ r.m.service_configs = service_configs
              /\ \A other \in Keys(containers) \ {name} :
                    /\ other \in Keys(r.m.containers)
                    /\ r.m.containers[other] = containers[other]
    /\ (lastOp.op = "stop" /\ lastOp.result = "ok") =>
          lastOp.name \notin Keys(containers)

\* A stop has returned on a started service whose container ended killed: the
\* name is untracked, its config is still stored, and the other service is
\* still tracked and running.
C30_Witness ==
    /\ lastOp.op = "stop" /\ lastOp.result = "ok"
    /\ lastOp.name \notin Keys(containers)
    /\ lastOp.name \in Keys(service_configs)
    /\ \E i \in 1..Len(docker) : docker[i].name = lastOp.name /\ docker[i].status = "killed"
    /\ \E other \in Keys(containers) : Running(docker[containers[other]].status)

\* The program points inside a trial body.
InBody(pc) == pc \in {"trial", "write", "kill", "restart", "verify", "result"}

\* C31: within one run the trials are recorded one after another with the
\* trial ids 0, 1, 2, ...; a trial body is entered only from the clear that
\* follows the previous trial's end, one clear per body; and no body starts
\* on events the preceding trial left in the backend: when a body is entered
\* the adapter holds nothing.
C31_TrialsOnClearedState ==
    [][/\ \A i \in 1..Len(run'.results) : run'.results[i].trial_id = i - 1
       /\ Len(run'.results) \in {Len(run.results), Len(run.results) + 1}
       /\ run.pc = "callback" => run'.pc \in {"clear", "finish"}
       /\ (InBody(run'.pc) /\ ~InBody(run.pc)) =>
              /\ run.pc = "clear"
              /\ Len(run.results) = run.trial_id
              /\ stored' = 0 /\ event_count' = 0]_vars

\* C32: a suite has at most one adapter between setup and teardown: while an
\* adapter is being set up, run or torn down no teardown of it has been
\* called; once its teardown returned it tracks no container and holds no
\* network handle and no client; a teardown whose removals succeed removes
\* every container it tracks; and the next combination's adapter is made only
\* after that, also when the earlier combination failed.
C32_OneAdapterAtATime ==
    [][/\ suite'.pc \in {"setup", "run", "teardown"} => suite'.teardowns = 0
       /\ suite'.pc = "after" =>
              /\ suite'.teardowns = 1
              /\ containers' = EmptyDict /\ ~network'
              /\ ~setup_complete' /\ ~client'
       /\ suite.pc = "teardown" =>
              \A name \in Keys(containers) :
                  teardown(Adp, NoFailure).a.m.docker[containers[name]].status = "removed"
       /\ suite'.attempted # suite.attempted =>
              /\ suite.pc = "combo" /\ suite'.pc = "setup"
              /\ containers' = EmptyDict /\ ~network'
              /\ suite.attempted # {} =>
                    /\ suite.teardowns = 1
                    /\ containers = EmptyDict /\ ~network /\ ~setup_complete]_vars

\* The suite is about to set up the adapter of its second combination, after
\* a first combination that failed and whose adapter was torn down.
C32_Witness ==
    /\ suite.mode = "suite" /\ suite.pc = "setup"
    /\ Cardinality(suite.attempted) = 2
    /\ suite.failed # {}
    /\ suite.setups = 0 /\ suite.teardowns = 0
    /\ kind \in {"krnx", "naive_rag"}
    /\ containers = EmptyDict /\ ~network

\* C33: a start waits for health by exactly one method, chosen by priority:
\* the HTTP poll when a health URL is declared, a probe command declared or
\* not; otherwise the probe command when one is declared; otherwise the
\* running-state poll.  Every probe made is of the chosen method, and the
\* wait returns normally only on a probe of that method that succeeded.
C33_HealthPriority ==
    wait.pc \notin {"idle", "select"} =>
        /\ wait.method = IF wait.config.healthcheck_url THEN "http"
                         ELSE IF wait.config.healthcheck_cmd THEN "cmd"
                         ELSE "running"
        /\ wait.used \subseteq {wait.method}
        /\ wait.pc = "returned" =>
              /\ wait.used = {wait.method}
              /\ wait.elapsed < wait.timeout
              /\ CASE wait.method = "http" ->
                        wait.response.what = "response" /\ wait.response.code \in 200..299
                   [] wait.method = "cmd" -> wait.response = Probe("exit", 0)
                   [] OTHER -> wait.response = Probe("running", -1)

\* A start whose config declares a health URL and a probe command has
\* returned after a failed and a successful HTTP poll; no command was run.
C33_Witness ==
    /\ wait.pc = "returned"
    /\ wait.config.healthcheck_url /\ wait.config.healthcheck_cmd
    /\ wait.method = "http" /\ wait.used = {"http"}
    /\ wait.elapsed = 1
    /\ wait.response = Probe("response", 200)

\* C34: the HTTP health check takes any 2xx response for health: on every
\* status code in 200..299 that the endpoint answers with before the deadline
\* the wait stops polling and returns.
C34_Any2xxHealthy ==
    [][(wait.pc = "poll" /\ wait.method = "http" /\ wait' # wait
          /\ wait'.response.what = "response" /\ wait'.response.code \in 200..299
          /\ wait'.used = {"http"} /\ wait'.raised = "none") =>
             wait'.pc = "returned"]_vars

\* C35: on an adapter that supports replay, two replays to the same
\* timestamp over an unchanged event log give states with equal hashes, and
\* the determinism trial succeeds exactly when the hashes are equal: a
\* determinism trial on a set-up adapter that supports replay, whose backend
\* answers every request, passes.
C35_ReplayDeterministic ==
    [][(/\ lastCall'.op = "determinism_trial"
        /\ supports(kind, "replay") /\ setup_complete
        /\ lastCall'.name = "answered") =>
            lastCall'.result = "pass"]_vars

\* The latest value of the graded version list, and whether the response
\* holds some older one, as written or in any case.
LatestValue == grade.fact_values[Len(grade.fact_values)]
ContainsLower(sub, str) == Contains(lower(sub), lower(str))
HoldsOlder ==
    \E i \in 1..(Len(grade.fact_values) - 1) : Contains(grade.fact_values[i], grade.response)
HoldsOlderLower ==
    \E i \in 1..(Len(grade.fact_values) - 1) :
        ContainsLower(grade.fact_values[i], grade.response)

\* C36, as stated: a response is graded correct only if it contains the
\* latest value vN, stale if it does not contain vN and contains some older
\* value, and hallucinated otherwise; every response gets exactly one grade.
C36_GradeByContainment ==
    grade.pc = "returned" =>
        /\ grade.result.grade \in {"correct", "stale", "hallucinated"}
        /\ grade.result.grade = "correct" => Contains(LatestValue, grade.response)
        /\ (~Contains(LatestValue, grade.response) /\ HoldsOlder) =>
              grade.result.grade = "stale"
        /\ (~Contains(LatestValue, grade.response) /\ ~HoldsOlder) =>
              grade.result.grade = "hallucinated"

\* C36, amended: the containment is tested on the lower-cased strings.  A
\* response is graded correct exactly if it holds vN whatever the case of its
\* letters, stale exactly if it does not and holds some older value so
\* compared, the matched version being the first such, and hallucinated
\* otherwise; the trial succeeds exactly on the grade correct.
C36_GradeIgnoringCase ==
    grade.pc = "returned" =>
        /\ grade.result.grade \in {"correct", "stale", "hallucinated"}
        /\ grade.result.grade = "correct" <=> ContainsLower(LatestValue, grade.response)
        /\ grade.result.grade = "stale" <=>
              (~ContainsLower(LatestValue, grade.response) /\ HoldsOlderLower)
        /\ grade.result.grade = "hallucinated" <=>
              (~ContainsLower(LatestValue, grade.response) /\ ~HoldsOlderLower)
        /\ grade.result.grade = "correct" => grade.result.matched_version = Len(grade.fact_values)
        /\ grade.result.grade = "stale" =>
              /\ grade.result.matched_version \in 1..(Len(grade.fact_values) - 1)
              /\ ContainsLower(grade.fact_values[grade.result.matched_version], grade.response)
        /\ grade.result.grade = "hallucinated" => grade.result.matched_version = 0
        /\ grade.success <=> grade.result.grade = "correct"

\* A response graded correct that holds the latest value in another case
\* only, and an older value as it is.
C36_Witness ==
    /\ grade.pc = "returned"
    /\ grade.result.grade = "correct"
    /\ Len(grade.fact_values) = 2
    /\ ~Contains(LatestValue, grade.response)
    /\ Contains(grade.fact_values[1], grade.response)

\* C37: CrashRecoveryScenario.run returns a ScenarioResult with an aggregate
\* for every sequence of trial outcomes, those with a trial that ended in
\* write_failure, kill_failure or restart_failure included: the step after the
\* last trial, which computes the aggregate, never raises and ends in the
\* return.
C37_AggregateNeverRaises ==
    [][(run.variant = "crash_recovery" /\ run.pc = "finish") =>
          /\ run'.pc = "returned"
          /\ run'.raised = run.raised]_vars

\* C38: the registry invariant.  After any sequence of start, stop, kill,
\* restart and cleanup_all on one orchestrator, every name with a tracked
\* container has a stored config (the tracked names are a subset of the names
\* with a config), and each name has at most one tracked record: the registry
\* maps the name to one container of the daemon, which bears that name, and
\* no two names are mapped to the same container.
C38_RegistryInvariant ==
    /\ Keys(containers) \subseteq Keys(service_configs)
    /\ Keys(service_configs) \subseteq Names
    /\ \A name \in Keys(containers) :
          /\ containers[name] \in 1..Len(docker)
          /\ docker[containers[name]].name = name
          /\ Cardinality({c \in 1..Len(docker) : containers[name] = c}) = 1
    /\ \A n1, n2 \in Keys(containers) : containers[n1] = containers[n2] => n1 = n2

\* Both names were started and one was stopped since: the other is the one
\* tracked name, mapped to its container, and both have a stored config.
C38_Witness ==
    /\ lastOp.op = "stop" /\ lastOp.result = "ok"
    /\ Keys(service_configs) = Names
    /\ Keys(containers) = Names \ {lastOp.name}
    /\ \A name \in Keys(containers) : Running(docker[containers[name]].status)

\* C39: kill(name) on a name that is not tracked (never started, or already
\* stopped) and restart(name) on a name with no stored config both fail with
\* an error (ValueError) and leave the registry, the stored configs, the
\* network and every container unchanged.  In particular, once a stop of a
\* tracked name has returned, a kill of that name fails and changes nothing,
\* while a restart of it is not refused: it launches a new container from the
\* stored config and, when the start succeeds, tracks it.
C39_KillRestartErrors ==
    [][/\ (lastOp'.op = "kill" /\ lastOp'.name \notin Keys(containers)) =>
              /\ lastOp'.result = "ValueError"
              /\ UNCHANGED <<containers, service_configs, network, docker>>
       /\ (lastOp'.op = "restart" /\ lastOp'.name \notin Keys(service_configs)) =>
              /\ lastOp'.result = "ValueError"
              /\ UNCHANGED <<containers, service_configs, network, docker>>
       /\ \A name \in Keys(containers), out \in StopOutcomes :
              LET s == stop_service(Mgr, name, out)
              IN  s.result = "ok" =>
                    /\ name \notin Keys(s.m.containers)
                    /\ kill_service(s.m, name) = Ret(s.m, "ValueError")
                    /\ \A o \in StartOutcomes(service_configs[name]) :
                          LET r == restart_service(s.m, name, o)
                          IN  /\ r.result # "ValueError"
                              /\ o # "api_error" =>
                                    /\ Len(r.m.docker) = Len(s.m.docker) + 1
                                    /\ r.m.docker[Len(r.m.docker)].config = service_configs[name]
                              /\ o = "ok" =>
                                    /\ r.result = "ok"
                                    /\ r.m.containers[name] = Len(r.m.docker)
                                    /\ r.m.docker[Len(r.m.docker)].status = "healthy"]_vars

\* A kill of a name that was started and then stopped has failed with
\* ValueError: the name has its config and no record, its container stopped.
C39_Witness ==
    /\ lastOp.op = "kill" /\ lastOp.result = "ValueError"
    /\ lastOp.name \in Keys(service_configs) \ Keys(containers)
    /\ \E i \in 1..Len(docker) : docker[i].name = lastOp.name /\ docker[i].status = "stopped"

\* C40: when the scenario does not list the requested adapter as supported,
\* ScenarioRunner.run returns a ScenarioResult with no trials and the
\* aggregate error marker adapter_not_supported, and no adapter was made, set
\* up or torn down: the adapter, its manager and the daemon are as before the
\* call.  When crash recovery or point-in-time is run on an adapter that lacks
\* the capability it needs, run returns one failed trial marked not_supported
\* with the aggregate error marker not_supported, and no clear, write, kill
\* or restart was issued: nothing was written and the adapter, its manager
\* and the daemon are as before the call.
C40_UnsupportedIsInert ==
    [][/\ (/\ suite.mode = "runner" /\ suite.pc = "combo"
           /\ ~supports_adapter(ThisScenario, ThisAdapter)) =>
              /\ suite'.pc = "returned"
              /\ suite'.results = <<ScenarioSummary(ThisScenario, ThisAdapter, 0,
                                                    "adapter_not_supported")>>
              /\ suite'.attempted = {} /\ suite'.setups = 0 /\ suite'.teardowns = 0
              /\ kind' = "none" /\ run' = RunIdle
              /\ UNCHANGED <<orchVars, adpVars>>
       /\ (/\ run.pc = "start" /\ run.variant \in {"crash_recovery", "point_in_time"}
           /\ ~supports(kind, Needs(run.variant))) =>
              /\ run'.pc = "returned"
              /\ Len(run'.results) = 1
              /\ ~run'.results[1].success
              /\ run'.results[1].trial_id = 0
              /\ run'.results[1].error_type = "not_supported"
              /\ run'.aggregate = [error |-> "not_supported"]
              /\ run'.written = 0 /\ run'.callbacks = 0
              /\ UNCHANGED <<orchVars, adpVars>>]_vars

\* A crash-recovery run on the baseline adapter, set up, has returned its one
\* not_supported trial, the adapter holding no event.
C40_Witness ==
    /\ run.pc = "returned" /\ run.variant = "crash_recovery"
    /\ kind = "baseline" /\ setup_complete
    /\ run.results = <<NotSupportedResult>>
    /\ run.aggregate = [error |-> "not_supported"]
    /\ stored = 0 /\ event_count = 0

\* The runner has returned the empty result marked adapter_not_supported for
\* point-in-time on the baseline adapter, no adapter made.
C40_RunnerWitness ==
    /\ suite.mode = "runner" /\ suite.pc = "returned"
    /\ suite.results = <<ScenarioSummary("point_in_time", "baseline", 0,
                                         "adapter_not_supported")>>
    /\ kind = "none" /\ suite.setups = 0 /\ suite.teardowns = 0

=============================================================================
